---- MODULE Spec2Model ----
(***************************************************************************)
(* Schema reconstruction pipeline of cleaning_Database_Normalization       *)
(* (src/schema.py, src/llm.py) and its table review (src/analyzecleaning.py) *)
(*                                                                         *)
(* Text is a sequence of tokens.  A token is a TLA+ string: a punctuation  *)
(* character, a whitespace character, a keyword or a word.  The regular    *)
(* expressions and character scans of the source are written as scans of   *)
(* the token sequence.  The token "<fence>" stands for the three backticks  *)
(* of a markdown code fence.                                               *)
(***************************************************************************)
EXTENDS Integers, Sequences, FiniteSets, TLC

VARIABLES
    \* ---- call_llm_single, as a unit
    max_retries, base_delay, service, llm_pc, llm_out,
    \* ---- resolve_chunk_tables, as a unit
    table, closure_pc, closure,
    \* ---- suggest_schema_improvements: its locals and its position
    pc, schema_data, schema_text, summary, tables, graph, table_map, sql_fix, fix_index,
    \* column_limit is the max_columns_per_chunk that chunk_tables is called with;
    \* erd_calls counts the call_llm_single invocations of the chunk loop
    column_limit, schema_chunks, i, raw_erd, erd_calls, all_nodes, all_edges, result,
    \* ---- clean_json_string, as a unit: its argument and what it returned
    clean_in, clean_pc, clean_out,
    \* ---- parse_erd_json, as a unit: its argument and what it returned
    parse_in, parse_pc, parse_out,
    \* ---- the deduplication of two chunk results, in both orders
    merge_in, merge_pc, merge_out,
    \* ---- analyzecleaning: the module's two sets, the tables of the database,
    \* the number of statements apply_fix committed, the latest call and what
    \* it returned
    processed_tables, skipped_tables, db_tables, applied, review_out

llm_vars == <<max_retries, base_delay, service, llm_pc, llm_out>>
closure_vars == <<table, closure_pc, closure>>
request_vars == <<pc, schema_data, schema_text, summary, tables, table_map, sql_fix, fix_index,
                  column_limit, schema_chunks, i, raw_erd, erd_calls, all_nodes, all_edges, result>>
clean_vars == <<clean_in, clean_pc, clean_out>>
parse_vars == <<parse_in, parse_pc, parse_out>>
merge_vars == <<merge_in, merge_pc, merge_out>>
review_vars == <<processed_tables, skipped_tables, db_tables, applied, review_out>>
unit_vars == <<clean_vars, parse_vars, merge_vars, review_vars>>
vars == <<llm_vars, closure_vars, graph, request_vars, unit_vars>>

(***************************************************************************)
(* Bounds of the model                                                     *)
(***************************************************************************)
MaxRetriesBound == 3
MaxBaseDelay == 2

(***************************************************************************)
(* Text helpers                                                            *)
(***************************************************************************)
\* the characters str.strip() and the regex class \s remove
Whitespace == {" ", "\n"}

\* the least and greatest index of a set of indexes, 0 for the empty set
FirstOf(S) == IF S = {} THEN 0 ELSE CHOOSE m \in S : \A x \in S : m <= x
LastOf(S) == IF S = {} THEN 0 ELSE CHOOSE m \in S : \A x \in S : m >= x

\* str.lstrip(): the text from its first character that is not whitespace
lstrip(s) ==
    LET k == FirstOf({ j \in 1..Len(s) : s[j] \notin Whitespace })
    IN  IF k = 0 THEN <<>> ELSE SubSeq(s, k, Len(s))

\* str.rstrip(): the text up to its last character that is not whitespace
rstrip(s) == SubSeq(s, 1, LastOf({ j \in 1..Len(s) : s[j] \notin Whitespace }))

\* str.strip()
strip(s) == rstrip(lstrip(s))

\* str.find from an index: the first index of tok at or after `from`, 0
\* when there is none
IndexOf(s, tok, from) == FirstOf({ k \in from..Len(s) : s[k] = tok })

\* the index of the last tok, 0 when there is none
LastIndexOf(s, tok) == LastOf({ k \in 1..Len(s) : s[k] = tok })

RECURSIVE Pow2(_)
Pow2(k) == IF k = 0 THEN 1 ELSE 2 * Pow2(k - 1)

(***************************************************************************)
(* The generation service and call_llm (src/llm.py)                        *)
(*                                                                         *)
(* One answer of the service to one HTTP request:                          *)
(*   kind "ok"       a 2xx response whose body has choices[0].message      *)
(*                   .content = content                                    *)
(*   kind "http"     a response with error status `status`                 *)
(*   kind "network"  requests.post raised a connection error or timeout    *)
(*   kind "shape"    a 2xx response whose body is not JSON or lacks the    *)
(*                   choices/message/content path                          *)
(*   kind "null"     a 2xx response whose content is JSON null             *)
(*   kind "unconfigured"  API_KEY, API_URL or MODEL_NAME is not set: no    *)
(*                   request is sent                                       *)
(***************************************************************************)
Ok(content) == [kind |-> "ok", status |-> 200, content |-> content]
Http(status) == [kind |-> "http", status |-> status, content |-> <<>>]
Network == [kind |-> "network", status |-> 0, content |-> <<>>]
Shape == [kind |-> "shape", status |-> 200, content |-> <<>>]
NullContent == [kind |-> "null", status |-> 200, content |-> <<>>]
Unconfigured == [kind |-> "unconfigured", status |-> 0, content |-> <<>>]

Return(v) == [how |-> "return", exc |-> "", status |-> 0, value |-> v]
Raise(exc, status) == [how |-> "raise", exc |-> exc, status |-> status, value |-> <<>>]

\* raise_for_status / requests.post: what the try block of call_llm raises
\* before its own except clauses translate it
RequestOutcome(answer) ==
    CASE answer.kind = "ok" -> Return(strip(answer.content))
      [] answer.kind = "http" -> Raise("HTTPError", answer.status)
      [] answer.kind = "network" -> Raise("ConnectionError", 0)
      [] answer.kind = "shape" -> Raise("KeyError", 0)
      [] answer.kind = "null" -> Raise("AttributeError", 0)
      [] OTHER -> Raise("ValueError", 0)

\* the classes `except requests.exceptions.RequestException` catches
RequestExceptions == {"HTTPError", "ConnectionError"}

\* the classes `except (ValueError, KeyError, IndexError)` catches
FormatExceptions == {"ValueError", "KeyError", "IndexError"}

\* call_llm: both except clauses re-raise as RuntimeError; HTTPError is a
\* RequestException, so the status of an error response is lost here
call_llm(answer) ==
    IF answer.kind = "unconfigured"
    THEN Raise("ValueError", 0)
    ELSE LET r == RequestOutcome(answer) IN
         IF r.how = "raise" /\ r.exc \in RequestExceptions \cup FormatExceptions
         THEN Raise("RuntimeError", 0)
         ELSE r

(***************************************************************************)
(* call_llm_single (src/schema.py)                                         *)
(*                                                                         *)
(* `script` is what the service answers to the 1st, 2nd, ... request of    *)
(* one invocation (its last answer repeats).  The result records the       *)
(* returned text, whether an exception left the function, the number of    *)
(* requests made and the sleeps taken, in order.                           *)
(***************************************************************************)
ServiceAt(script, k) == IF k <= Len(script) THEN script[k] ELSE script[Len(script)]

LlmResult(raised, text, calls, waits) ==
    [raised |-> raised, text |-> text, calls |-> calls, waits |-> waits]

\* a handler that retries whatever was raised
Handler_retry_all(r) == "retry"

\* a handler without the `except Exception` clause
Handler_no_catch_all(r) ==
    IF r.exc = "HTTPError"
    THEN IF r.status = 429 THEN "retry" ELSE "empty"
    ELSE "propagate"

\* the two except clauses of call_llm_single applied to a raised exception:
\* "retry" for HTTPError with status 429, "empty" for everything else
Handler(r) ==
    IF r.exc = "HTTPError"
    THEN IF r.status = 429 THEN "retry" ELSE "empty"
    ELSE "empty"

RECURSIVE RetryLoop(_, _, _, _, _)
RetryLoop(script, maxr, based, retries, waits) ==
    IF retries < maxr
    THEN LET r == call_llm(ServiceAt(script, retries + 1))
             calls == retries + 1
         IN  IF r.how = "return"
             THEN LlmResult(FALSE, strip(r.value), calls, waits)
             ELSE CASE Handler(r) = "retry" ->
                         RetryLoop(script, maxr, based, retries + 1,
                                   Append(waits, based * Pow2(retries)))
                    [] Handler(r) = "empty" -> LlmResult(FALSE, <<>>, calls, waits)
                    [] OTHER -> LlmResult(TRUE, <<>>, calls, waits)
    ELSE LlmResult(FALSE, <<>>, retries, waits)

call_llm_single(script, maxr, based) == RetryLoop(script, maxr, based, 0, <<>>)

(***************************************************************************)
(* Python dict: insertion-ordered keys and a value for each key            *)
(***************************************************************************)
EmptyDict == [keys |-> <<>>, val |-> [x \in {} |-> x]]

Range(seq) == { seq[k] : k \in DOMAIN seq }

DictHas(d, k) == k \in Range(d.keys)

\* a dict in which a key that is assigned again moves to the end
DictSet_reinsert(d, k, v) ==
    [keys |-> Append(SelectSeq(d.keys, LAMBDA x : x # k), k),
     val |-> [x \in Range(d.keys) \cup {k} |-> IF x = k THEN v ELSE d.val[x]]]

\* d[k] = v: a new key goes last, an existing key keeps its position
DictSet(d, k, v) ==
    [keys |-> IF DictHas(d, k) THEN d.keys ELSE Append(d.keys, k),
     val |-> [x \in Range(d.keys) \cup {k} |-> IF x = k THEN v ELSE d.val[x]]]

\* list(d.values())
DictValues(d) == [k \in DOMAIN d.keys |-> d.val[d.keys[k]]]

(***************************************************************************)
(* Tokens of DDL text                                                      *)
(***************************************************************************)
Punctuation == {"[", "]", "(", ")", ",", ";", "{", "}", ":", "-", "<fence>", "\"", "'", "\\\"", "\\'"}

\* the regex class \w+ : a token made of letters, digits and underscores
IsWord(tok) == tok \notin Punctuation \cup Whitespace

IsSpace(tok) == tok \in Whitespace

\* str.upper() / re.IGNORECASE on the keywords and type names of the model
Upper(tok) ==
    CASE tok = "create" -> "CREATE"
      [] tok = "table" -> "TABLE"
      [] tok = "foreign" -> "FOREIGN"
      [] tok = "key" -> "KEY"
      [] tok = "references" -> "REFERENCES"
      [] tok = "varchar" -> "VARCHAR"
      [] tok = "nvarchar" -> "NVARCHAR"
      [] tok = "json" -> "JSON"
      [] OTHER -> tok

\* the tokens of an identifier or type name as it is written into text
NameTokens(name) ==
    CASE name = "Order Details" -> <<"Order", " ", "Details">>
      [] name = "Order-Items" -> <<"Order", "-", "Items">>
      [] OTHER -> <<name>>

\* the index of the first token at or after `from` that is not whitespace
\* (Len(s) + 1 when there is none): the regex \s*
NextNonSpace(s, from, k) ==
    IF k = 0 THEN (IF from > Len(s) THEN from ELSE Len(s) + 1) ELSE k

SkipSpace(s, from) ==
    IF from <= Len(s) /\ ~IsSpace(s[from]) THEN from
    ELSE NextNonSpace(s, from, FirstOf({ j \in from..Len(s) : ~IsSpace(s[j]) }))

At(s, k) == IF k >= 1 /\ k <= Len(s) THEN s[k] ELSE ""

(***************************************************************************)
(* fix_sql_schema (src/schema.py)                                          *)
(***************************************************************************)
\* re.sub(r'N?VARCHAR\(\s*\)', '...(255)'): an empty length gets 255
EmptyLengthAt(s, k) ==
    /\ Upper(s[k]) \in {"VARCHAR", "NVARCHAR"}
    /\ At(s, k + 1) = "("
    /\ At(s, SkipSpace(s, k + 2)) = ")"

RECURSIVE FixEmptyLength(_, _)
FixEmptyLength(s, from) ==
    LET k == FirstOf({ j \in from..Len(s) : EmptyLengthAt(s, j) })
    IN  IF k = 0 THEN SubSeq(s, from, Len(s))
        ELSE SubSeq(s, from, k - 1) \o <<Upper(s[k]), "(", "255", ")">>
             \o FixEmptyLength(s, SkipSpace(s, k + 2) + 1)

\* re.sub(r',\s*\)', ')') and re.sub(r',\s*;', ';')
RECURSIVE FixTrailingComma(_, _, _)
FixTrailingComma(s, from, closer) ==
    LET k == FirstOf({ j \in from..Len(s) : s[j] = "," /\ At(s, SkipSpace(s, j + 1)) = closer })
    IN  IF k = 0 THEN SubSeq(s, from, Len(s))
        ELSE SubSeq(s, from, k - 1) \o <<closer>>
             \o FixTrailingComma(s, SkipSpace(s, k + 1) + 1, closer)

fix_sql_schema(sql_text) ==
    FixTrailingComma(FixTrailingComma(FixEmptyLength(sql_text, 1), 1, ")"), 1, ";")

(***************************************************************************)
(* split_schema_to_tables, extract_table_name, extract_foreign_key_targets *)
(***************************************************************************)
\* `CREATE TABLE\s+\[?(\w+)\]?` matched at index k: the index of the name
\* token, 0 when the pattern does not match there
\* `\[?(\w+)` at index n: the index of the word, 0 when there is none
NameAt(s, n) ==
    IF At(s, n) = "[" THEN (IF IsWord(At(s, n + 1)) THEN n + 1 ELSE 0)
    ELSE IF IsWord(At(s, n)) THEN n ELSE 0

TableHeaderAt(s, k) ==
    IF Upper(At(s, k)) = "CREATE" /\ At(s, k + 1) = " " /\ Upper(At(s, k + 2)) = "TABLE"
       /\ IsSpace(At(s, k + 3))
    THEN NameAt(s, SkipSpace(s, k + 3))
    ELSE 0

\* the index of the ";" of the first ");" at or after `from`, 0 when none
FindClose(s, from) ==
    IF \E j \in from..(Len(s) - 1) : s[j] = ")" /\ s[j + 1] = ";"
    THEN FirstOf({ j \in from..(Len(s) - 1) : s[j] = ")" /\ s[j + 1] = ";" }) + 1
    ELSE 0

\* the block whose table name is at index w ends at the first ");" after the
\* name and its closing bracket
BlockEndAfter(s, w) ==
    IF w = 0 THEN 0 ELSE FindClose(s, IF At(s, w + 1) = "]" THEN w + 2 ELSE w + 1)

\* the index at which the block that starts at index k ends, 0 when no block
\* starts there
BlockEnd(s, k) == BlockEndAfter(s, TableHeaderAt(s, k))

RECURSIVE SplitFrom(_, _)
SplitAt(s, k, e) ==
    IF k = 0 THEN <<>> ELSE <<SubSeq(s, k, e)>> \o SplitFrom(s, e + 1)

SplitAtStart(s, k) == SplitAt(s, k, IF k = 0 THEN 0 ELSE BlockEnd(s, k))

SplitFrom(s, from) ==
    SplitAtStart(s, FirstOf({ j \in from..Len(s) : BlockEnd(s, j) # 0 }))

\* pattern.findall(schema_text)
split_schema_to_tables(text) == SplitFrom(text, 1)

\* a name parser that reads the token after the opening parenthesis
extract_table_name_wrong_token(table_sql) ==
    IF TableHeaderAt(table_sql, 1) = 0 THEN "Unknown" ELSE At(table_sql, Len(table_sql))

extract_table_name(table_sql) ==
    IF TableHeaderAt(table_sql, 1) = 0 THEN "Unknown"
    ELSE table_sql[TableHeaderAt(table_sql, 1)]

\* the index of the first ")" at or after `from`, 0 when none
FindParen(s, from) == IndexOf(s, ")", from)

\* `FOREIGN\s+KEY\s*\([^\)]+\)\s+REFERENCES\s+\[?(\w+)\]?` matched at index
\* k: the index of the target token, 0 when the pattern does not match there
\* `\s+REFERENCES\s+\[?(\w+)` with REFERENCES expected at index ref
ReferencesAt(s, ref) ==
    IF Upper(At(s, ref)) = "REFERENCES" /\ IsSpace(At(s, ref + 1))
    THEN NameAt(s, SkipSpace(s, ref + 1))
    ELSE 0

\* `\([^\)]+\)` with the parenthesis expected at index open, closed at index close
ColumnListAt(s, open, close) ==
    IF At(s, open) = "(" /\ close > open + 1 /\ IsSpace(At(s, close + 1))
    THEN ReferencesAt(s, SkipSpace(s, close + 1))
    ELSE 0

\* `KEY\s*` with KEY expected at index key
KeyAt(s, key, open) ==
    IF Upper(At(s, key)) = "KEY" THEN ColumnListAt(s, open, FindParen(s, open + 1)) ELSE 0

ForeignKeyAt(s, k) ==
    IF Upper(At(s, k)) = "FOREIGN" /\ IsSpace(At(s, k + 1))
    THEN KeyAt(s, SkipSpace(s, k + 1), SkipSpace(s, SkipSpace(s, k + 1) + 1))
    ELSE 0

\* set(fk_pattern.findall(table_sql))
RECURSIVE ForeignKeysFrom(_, _)
ForeignKeysAt(s, w) ==
    IF w = 0 THEN {} ELSE {s[w]} \cup ForeignKeysFrom(s, w + 1)

ForeignKeysFrom(s, from) ==
    ForeignKeysAt(s, ForeignKeyAt(s, FirstOf({ j \in from..Len(s) : ForeignKeyAt(s, j) # 0 })))

extract_foreign_key_targets(table_sql) == ForeignKeysFrom(table_sql, 1)

(***************************************************************************)
(* build_dependency_graph, chunk_tables                                    *)
(***************************************************************************)
RECURSIVE BuildFrom(_, _)
BuildFrom(blocks, acc) ==
    IF blocks = <<>> THEN acc
    ELSE LET ddl == Head(blocks)
             name == extract_table_name(ddl)
         IN  BuildFrom(Tail(blocks),
                       [graph |-> DictSet(acc.graph, name, extract_foreign_key_targets(ddl)),
                        table_map |-> DictSet(acc.table_map, name, ddl)])

\* returns the pair (graph, table_map)
build_dependency_graph(blocks) ==
    BuildFrom(blocks, [graph |-> EmptyDict, table_map |-> EmptyDict])

\* a planner that leaves out the tables that have foreign keys
chunk_tables_skipping_dependents(g, tmap, max_columns_per_chunk) ==
    LET kept == SelectSeq(tmap.keys, LAMBDA n : g.val[n] = {})
    IN  [k \in DOMAIN kept |-> tmap.val[kept[k]]]

\* one chunk per table, in the key order of table_map
chunk_tables(g, tmap, max_columns_per_chunk) == DictValues(tmap)

(***************************************************************************)
(* Catalog rows and the DDL synthesis loop of suggest_schema_improvements  *)
(*                                                                         *)
(* A row is a record of the catalog fields; `absent` names the keys the    *)
(* row dict does not have and `null` the keys whose value is None.         *)
(***************************************************************************)
Row(t, c, ty, len, nullable, pk, fk, rt, rc) ==
    [table_name |-> t, column_name |-> c, data_type |-> ty, max_length |-> len,
     is_nullable |-> nullable, is_primary_key |-> pk, is_foreign_key |-> fk,
     referenced_table |-> rt, referenced_column |-> rc,
     absent |-> {},
     null |-> IF fk THEN {} ELSE {"referenced_table", "referenced_column"}]

\* row.get(key) is None
IsNone(row, key) == key \in row.absent \cup row.null

\* the value is there and is not None
Present(row, key) == ~IsNone(row, key)

Abs(n) == IF n < 0 THEN -n ELSE n

\* f"  [{column_name}] {data_type}" and the optional length
ColumnHead(row) ==
    LET column_name == IF "column_name" \in row.absent THEN <<"UnknownColumn">>
                       ELSE IF "column_name" \in row.null THEN <<"None">>
                       ELSE NameTokens(row.column_name)
        data_type == IF "data_type" \in row.absent THEN "VARCHAR" ELSE row.data_type
        max_length == IF "max_length" \in row.absent THEN 0 ELSE Abs(row.max_length)
    IN  <<" ", " ", "[">> \o column_name \o <<"]", " ">> \o NameTokens(data_type)
        \o IF Upper(data_type) \in {"VARCHAR", "NVARCHAR"}
           THEN <<"(", IF max_length > 0 THEN ToString(max_length) ELSE "255", ")">>
           ELSE <<>>

\* the nullability, primary-key and foreign-key suffixes and the separator
ColumnTail(row) ==
    LET is_nullable == IF "is_nullable" \in row.absent THEN TRUE
                       ELSE Present(row, "is_nullable") /\ row.is_nullable
        ref_table == IF Present(row, "referenced_table") THEN row.referenced_table ELSE ""
        ref_col == IF Present(row, "referenced_column") THEN row.referenced_column ELSE ""
    IN  (IF ~is_nullable THEN <<" ", "NOT", " ", "NULL">> ELSE <<" ", "NULL">>)
        \o (IF Present(row, "is_primary_key") /\ row.is_primary_key
            THEN <<" ", "PRIMARY", " ", "KEY">> ELSE <<>>)
        \o (IF Present(row, "is_foreign_key") /\ row.is_foreign_key
               /\ ref_table # "" /\ ref_col # ""
            THEN <<" ", "FOREIGN", " ", "KEY", " ", "REFERENCES", " ">>
                 \o NameTokens(ref_table) \o <<"(">> \o NameTokens(ref_col) \o <<")">>
            ELSE <<>>)
        \o <<",", "\n">>

\* schema_text.rstrip(",\n")
rstrip_comma_newline(s) == SubSeq(s, 1, LastOf({ j \in 1..Len(s) : s[j] \notin {",", "\n"} }))

\* abs(None) and None.upper() raise
RowRaises(row) ==
    \/ "max_length" \in row.null \ row.absent
    \/ "data_type" \in row.null \ row.absent

\* the loop over schema_data; acc = [text, current_table, has_current, raised]
RECURSIVE SynthRows(_, _)
SynthRows(rows, acc) ==
    IF rows = <<>> \/ acc.raised THEN acc
    ELSE LET row == Head(rows) IN
         IF IsNone(row, "table_name") THEN SynthRows(Tail(rows), acc)
         ELSE LET opened ==
                      IF acc.has_current /\ row.table_name = acc.current_table
                      THEN acc.text
                      ELSE (IF acc.has_current
                            THEN rstrip_comma_newline(acc.text) \o <<"\n", ")", ";", "\n", "\n">>
                            ELSE acc.text)
                           \o <<"CREATE", " ", "TABLE", " ", "[">> \o NameTokens(row.table_name)
                           \o <<"]", " ", "(", "\n">>
              IN  IF RowRaises(row)
                  THEN [acc EXCEPT !.raised = TRUE]
                  ELSE SynthRows(Tail(rows),
                                 [text |-> opened \o ColumnHead(row) \o ColumnTail(row),
                                  current_table |-> row.table_name,
                                  has_current |-> TRUE,
                                  raised |-> FALSE])

\* lines 216-257: the synthesized schema_text after fix_sql_schema, or the
\* exception that ends the request
SynthesizeDdl(rows) ==
    LET acc == SynthRows(rows,
                         [text |-> <<>>, current_table |-> "", has_current |-> FALSE,
                          raised |-> FALSE])
    IN  [raised |-> acc.raised,
         text |-> IF acc.raised THEN <<>>
                  ELSE fix_sql_schema(IF acc.has_current
                                      THEN rstrip_comma_newline(acc.text) \o <<"\n", ")", ";">>
                                      ELSE acc.text)]

\* the scenario of the specification: Employees(EID PK, DeptID FK ->
\* Departments.DeptID) and Departments(DeptID PK)
EmployeesRows ==
    << Row("Employees", "EID", "int", 4, FALSE, TRUE, FALSE, "", ""),
       Row("Employees", "DeptID", "int", 4, FALSE, FALSE, TRUE, "Departments", "DeptID") >>

DepartmentsRows ==
    << Row("Departments", "DeptID", "int", 4, FALSE, TRUE, FALSE, "", "") >>

(***************************************************************************)
(* JSON values and json.loads                                              *)
(*                                                                         *)
(* A decoded value is a record with a tag t: "str" (s holds the string),   *)
(* "lit" (s holds true, false, null or a number), "arr" (a holds the       *)
(* items) and "obj" (o holds the dict).                                    *)
(***************************************************************************)
JStr(s) == [t |-> "str", s |-> s, a |-> <<>>, o |-> EmptyDict]
JLit(s) == [t |-> "lit", s |-> s, a |-> <<>>, o |-> EmptyDict]
JArr(a) == [t |-> "arr", s |-> "", a |-> a, o |-> EmptyDict]
JObj(o) == [t |-> "obj", s |-> "", a |-> <<>>, o |-> o]

JNull == JLit("null")
JFalse == JLit("false")
JTrue == JLit("true")

Literals == {"true", "false", "null", "0", "1"}

DictDel(d, k) ==
    [keys |-> SelectSeq(d.keys, LAMBDA x : x # k),
     val |-> [x \in Range(d.keys) \ {k} |-> d.val[x]]]

\* d.get(k, default)
DictGet(d, k, default) == IF DictHas(d, k) THEN d.val[k] ELSE default

\* d.setdefault(k, default)
DictSetDefault(d, k, default) == IF DictHas(d, k) THEN d ELSE DictSet(d, k, default)

RECURSIVE Concat(_)
Concat(toks) == IF toks = <<>> THEN "" ELSE Head(toks) \o Concat(Tail(toks))

Parsed(v, next) == [ok |-> TRUE, v |-> v, next |-> next]
ParseError == [ok |-> FALSE, v |-> JNull, next |-> 0]

\* a string literal whose opening quote is at index j: the content runs to
\* the next quote; a raw newline or the escape \' inside it is an error
ParseString(s, j) ==
    LET q == IndexOf(s, "\"", j + 1)
        content == SubSeq(s, j + 1, q - 1)
    IN  IF q = 0 \/ \E k \in DOMAIN content : content[k] \in {"\n", "\\'"}
        THEN ParseError
        ELSE Parsed(JStr(Concat([k \in DOMAIN content |->
                                    IF content[k] = "\\\"" THEN "\"" ELSE content[k]])),
                    q + 1)

RECURSIVE ParseValue(_, _)
RECURSIVE ParseMembers(_, _, _, _)
RECURSIVE ParseElements(_, _, _, _)

ParseValue(s, k) ==
    LET j == SkipSpace(s, k)
        tok == At(s, j)
    IN  CASE tok = "{" -> ParseMembers(s, SkipSpace(s, j + 1), EmptyDict, TRUE)
          [] tok = "[" -> ParseElements(s, SkipSpace(s, j + 1), <<>>, TRUE)
          [] tok = "\"" -> ParseString(s, j)
          [] tok \in Literals -> Parsed(JLit(tok), j + 1)
          [] OTHER -> ParseError

\* the members of an object from index k (after whitespace); a key given
\* twice keeps its first position and its last value
ParseMembers(s, k, acc, first) ==
    IF first /\ At(s, k) = "}" THEN Parsed(JObj(acc), k + 1)
    ELSE IF At(s, k) # "\"" THEN ParseError
    ELSE LET key == ParseString(s, k)
             colon == SkipSpace(s, key.next)
             val == ParseValue(s, colon + 1)
             sep == SkipSpace(s, val.next)
         IN  IF ~key.ok \/ At(s, colon) # ":" THEN ParseError
             ELSE IF ~val.ok THEN ParseError
             ELSE IF At(s, sep) = ","
                  THEN ParseMembers(s, SkipSpace(s, sep + 1),
                                    DictSet(acc, key.v.s, val.v), FALSE)
             ELSE IF At(s, sep) = "}"
                  THEN Parsed(JObj(DictSet(acc, key.v.s, val.v)), sep + 1)
             ELSE ParseError

ParseElements(s, k, acc, first) ==
    IF first /\ At(s, k) = "]" THEN Parsed(JArr(acc), k + 1)
    ELSE LET val == ParseValue(s, k)
             sep == SkipSpace(s, val.next)
         IN  IF ~val.ok THEN ParseError
             ELSE IF At(s, sep) = ","
                  THEN ParseElements(s, SkipSpace(s, sep + 1), Append(acc, val.v), FALSE)
             ELSE IF At(s, sep) = "]"
                  THEN Parsed(JArr(Append(acc, val.v)), sep + 1)
             ELSE ParseError

\* json.loads: one value and nothing but whitespace after it
json_loads(s) ==
    LET r == ParseValue(s, 1)
    IN  IF r.ok /\ SkipSpace(s, r.next) > Len(s) THEN r ELSE ParseError

(***************************************************************************)
(* Python operations on decoded values                                     *)
(***************************************************************************)
IsDict(v) == v.t = "obj"
IsList(v) == v.t = "arr"

\* bool(v)
Truthy(v) ==
    CASE v.t = "str" -> v.s # ""
      [] v.t = "lit" -> v.s \notin {"false", "null", "0"}
      [] v.t = "arr" -> v.a # <<>>
      [] OTHER -> v.o.keys # <<>>

\* a or b
Or(a, b) == IF Truthy(a) THEN a ELSE b

\* `for x in v`: a list gives its items, a dict its keys, a string its
\* characters; anything else raises TypeError
Iterable(v) == v.t # "lit"

Items(v) ==
    CASE v.t = "arr" -> v.a
      [] v.t = "obj" -> [k \in DOMAIN v.o.keys |-> JStr(v.o.keys[k])]
      [] v.t = "str" -> [k \in 1..Len(v.s) |-> JStr("c")]
      [] OTHER -> <<>>

\* the value can be a dict key or a tuple component
Hashable(v) == v.t \in {"str", "lit"}

\* the test `edges in node`: a key of a dict, an item of a list, a substring of a
\* string; raises on anything else
HasEdgesRaises(node) == node.t = "lit"

HasEdges(node) ==
    CASE node.t = "obj" -> DictHas(node.o, "edges")
      [] node.t = "arr" -> \E k \in DOMAIN node.a : node.a[k] = JStr("edges")
      [] node.t = "str" -> node.s = "edges"
      [] OTHER -> FALSE

Done(v) == [ok |-> TRUE, v |-> v]
Raised == [ok |-> FALSE, v |-> JNull]

(***************************************************************************)
(* normalize_erd_node (src/schema.py)                                      *)
(***************************************************************************)
\* bool(col.get(a) or col.get(b))
Flag(col, a, b) ==
    IF Truthy(Or(DictGet(col.o, a, JNull), DictGet(col.o, b, JNull))) THEN JTrue ELSE JFalse

normalized_col(col) ==
    JObj([keys |-> <<"name", "type", "isPrimaryKey", "isForeignKey", "nullable">>,
          val |-> [k \in {"name", "type", "isPrimaryKey", "isForeignKey", "nullable"} |->
                     CASE k = "name" -> DictGet(col.o, "name", JNull)
                       [] k = "type" -> DictGet(col.o, "type", JNull)
                       [] k = "isPrimaryKey" -> Flag(col, "isPrimaryKey", "primaryKey")
                       [] k = "isForeignKey" -> Flag(col, "isForeignKey", "foreignKey")
                       [] OTHER -> DictGet(col.o, "nullable", JFalse)]])

\* a normalizer that keeps the type the node came with
normalize_erd_node_keeping_type(node) ==
    LET columns == Or(Or(DictGet(node.o, "columns", JNull), DictGet(node.o, "data", JNull)),
                      JArr(<<>>))
        cols == Items(columns)
    IN  IF ~Iterable(columns) \/ \E k \in DOMAIN cols : ~IsDict(cols[k])
        THEN Raised
        ELSE Done(JObj(DictDel(DictSet(DictSetDefault(node.o, "type", JStr("table")), "columns",
                                       JArr([k \in DOMAIN cols |-> normalized_col(cols[k])])),
                               "data")))

\* the node is a dict here: parse_erd_json has called setdefault on it
normalize_erd_node(node) ==
    LET typed == DictSet(node.o, "type", JStr("table"))
        columns == Or(Or(DictGet(typed, "columns", JNull), DictGet(typed, "data", JNull)),
                      JArr(<<>>))
        cols == Items(columns)
    IN  IF ~Iterable(columns) \/ \E k \in DOMAIN cols : ~IsDict(cols[k])
        THEN Raised
        ELSE Done(JObj(DictDel(DictSet(typed, "columns",
                                       JArr([k \in DOMAIN cols |-> normalized_col(cols[k])])),
                               "data")))

(***************************************************************************)
(* clean_json_string (src/schema.py)                                       *)
(***************************************************************************)
Text(txt) == [ok |-> TRUE, text |-> txt]
ValueError == [ok |-> FALSE, text |-> <<>>]

\* the first re.sub: an opening fence with the json tag, and the whitespace
\* after it, at the very start
StripOpeningFence(s) ==
    IF At(s, 1) = "<fence>" /\ Upper(At(s, 2)) = "JSON"
    THEN SubSeq(s, SkipSpace(s, 3), Len(s)) ELSE s

\* the second re.sub: a closing fence at the very end and the whitespace
\* before it
StripClosingFence(s) ==
    IF s # <<>> /\ s[Len(s)] = "<fence>" THEN rstrip(SubSeq(s, 1, Len(s) - 1)) ELSE s

\* brace_count after the character at index k, counting from first_brace
BraceCount(s, first_brace, k) ==
    Cardinality({ j \in first_brace..k : s[j] = "{" })
    - Cardinality({ j \in first_brace..k : s[j] = "}" })

\* a scan that stops at the last closing brace of the text
MatchingBrace_greedy(s, first_brace) == LastIndexOf(s, "}")

\* the first closing brace at which brace_count is zero, 0 when there is none
MatchingBrace(s, first_brace) ==
    FirstOf({ k \in first_brace..Len(s) : s[k] = "}" /\ BraceCount(s, first_brace, k) = 0 })

\* a return of cleaned[first_brace:i], which leaves the closing brace out
ExtractObject_open(cleaned, first_brace, closing) ==
    IF closing = 0 THEN ValueError ELSE Text(SubSeq(cleaned, first_brace, closing - 1))

\* the loop over range(first_brace, len(cleaned)) and its return
ExtractObject(cleaned, first_brace, closing) ==
    IF closing = 0 THEN ValueError ELSE Text(SubSeq(cleaned, first_brace, closing))

\* cleaned.find and the first raise
FromFirstBrace(cleaned, first_brace) ==
    IF first_brace = 0 THEN ValueError
    ELSE ExtractObject(cleaned, first_brace, MatchingBrace(cleaned, first_brace))

WithoutFences(cleaned) == FromFirstBrace(cleaned, IndexOf(cleaned, "{", 1))

clean_json_string(raw_str) ==
    WithoutFences(StripClosingFence(StripOpeningFence(strip(raw_str))))

(***************************************************************************)
(* parse_erd_json (src/schema.py)                                          *)
(***************************************************************************)
\* the two str.replace calls: a backslash is dropped before a single and
\* before a double quote
Unescape(s) ==
    [k \in DOMAIN s |-> CASE s[k] = "\\'" -> "'" [] s[k] = "\\\"" -> "\"" [] OTHER -> s[k]]

\* Step 4, the loop over parsed["nodes"]: acc = [ok, nodes, edges]
RECURSIVE HoistEdges(_, _)
HoistEdges(nodes, acc) ==
    IF nodes = <<>> \/ ~acc.ok THEN acc
    ELSE LET node == Head(nodes) IN
         IF HasEdgesRaises(node) THEN [acc EXCEPT !.ok = FALSE]
         ELSE IF ~HasEdges(node)
              THEN HoistEdges(Tail(nodes), [acc EXCEPT !.nodes = Append(@, node)])
         ELSE IF ~IsDict(node) \/ ~Iterable(node.o.val["edges"])
              THEN [acc EXCEPT !.ok = FALSE]
         ELSE HoistEdges(Tail(nodes),
                         [ok |-> TRUE,
                          nodes |-> Append(acc.nodes, JObj(DictDel(node.o, "edges"))),
                          edges |-> acc.edges \o Items(node.o.val["edges"])])

\* an injection that puts the extracted edges before the top-level ones
InjectEdges_prepend(parsed, h) ==
    IF ~h.ok THEN Raised
    ELSE IF ~DictHas(parsed.o, "edges")
         THEN Done(JObj(DictSet(DictSet(parsed.o, "nodes", JArr(h.nodes)),
                                "edges", JArr(h.edges))))
    ELSE IF ~IsList(parsed.o.val["edges"]) THEN Raised
    ELSE Done(JObj(DictSet(DictSet(parsed.o, "nodes", JArr(h.nodes)),
                           "edges", JArr(h.edges \o parsed.o.val["edges"].a))))

\* Step 4: the decoded dict with the inline edges moved to the top level
\* the assignments after the loop: h = [ok, nodes, edges] is what the loop
\* collected
InjectEdges(parsed, h) ==
    IF ~h.ok THEN Raised
    ELSE IF ~DictHas(parsed.o, "edges")
         THEN Done(JObj(DictSet(DictSet(parsed.o, "nodes", JArr(h.nodes)),
                                "edges", JArr(h.edges))))
    ELSE IF ~IsList(parsed.o.val["edges"]) THEN Raised
    ELSE Done(JObj(DictSet(DictSet(parsed.o, "nodes", JArr(h.nodes)),
                           "edges", JArr(parsed.o.val["edges"].a \o h.edges))))

FixEdgeNesting(parsed) ==
    IF ~IsList(DictGet(parsed.o, "nodes", JNull)) THEN Done(parsed)
    ELSE InjectEdges(parsed, HoistEdges(parsed.o.val["nodes"].a,
                                        [ok |-> TRUE, nodes |-> <<>>, edges |-> <<>>]))

\* the column defaults of the final cleanup, for one node
\* the three setdefault calls on one column
CleanColumn(col) ==
    JObj(DictSetDefault(DictSetDefault(DictSetDefault(
             col.o, "nullable", JFalse), "isPrimaryKey", JFalse), "isForeignKey", JFalse))

\* node.setdefault("type", "table") and the loop over the columns, which
\* changes the column dicts of a list in place
CleanColumns(node, columns) ==
    IF IsList(columns)
    THEN JObj(DictSet(DictSetDefault(node.o, "type", JStr("table")), "columns",
                      JArr([k \in DOMAIN columns.a |-> CleanColumn(columns.a[k])])))
    ELSE JObj(DictSetDefault(node.o, "type", JStr("table")))

CleanNode(node) == CleanColumns(node, DictGet(node.o, "columns", JArr(<<>>)))

\* a column that is no dict has no setdefault
ColumnsRaise(columns) ==
    \/ ~Iterable(columns)
    \/ \E c \in { Items(columns)[k] : k \in DOMAIN Items(columns) } : ~IsDict(c)

\* the final cleanup raises on a node that is no dict and a column that is no dict
CleanRaises(nodes) ==
    \/ ~Iterable(nodes)
    \/ \E node \in { Items(nodes)[k] : k \in DOMAIN Items(nodes) } :
          \/ ~IsDict(node)
          \/ ColumnsRaise(DictGet(node.o, "columns", JArr(<<>>)))

\* the final cleanup
CleanNodes(parsed, nodes) ==
    IF CleanRaises(nodes) THEN Raised
    ELSE IF IsList(nodes)
         THEN Done(JObj(DictSet(parsed.o, "nodes",
                                JArr([k \in DOMAIN nodes.a |-> CleanNode(nodes.a[k])]))))
    ELSE Done(parsed)

\* Step 5 and the final cleanup
ValidateAndClean(parsed) ==
    IF ~DictHas(parsed.o, "nodes") \/ ~DictHas(parsed.o, "edges") THEN Raised
    ELSE CleanNodes(parsed, parsed.o.val["nodes"])

\* Steps 4 and 5 on what Step 3 returned
AfterFix(fixed) == IF ~fixed.ok THEN Raised ELSE ValidateAndClean(fixed.v)

\* parsed.get raises on a decoded value that is no dict
AfterDecode(decoded) ==
    IF ~decoded.ok \/ ~IsDict(decoded.v) THEN Raised ELSE AfterFix(FixEdgeNesting(decoded.v))

\* Steps 1 to 3: the greedy match runs from the first "{" to the last "}"
MatchObject(response, first, last) ==
    IF first = 0 \/ last < first THEN Raised
    ELSE AfterDecode(json_loads(strip(Unescape(SubSeq(response, first, last)))))

\* ok = FALSE stands for the None that parse_erd_json returns on any exception
parse_erd_json(response) ==
    MatchObject(response, IndexOf(response, "{", 1), LastIndexOf(response, "}"))

(***************************************************************************)
(* The chunk loop body and the deduplication of suggest_schema_improvements *)
(***************************************************************************)
\* [normalize_erd_node(n) for n in ...]: acc = [ok, nodes]
RECURSIVE NormalizeAll(_, _)
NormalizeAll(nodes, acc) ==
    IF nodes = <<>> \/ ~acc.ok THEN acc
    ELSE LET n == normalize_erd_node(Head(nodes)) IN
         IF ~n.ok THEN [acc EXCEPT !.ok = FALSE]
         ELSE NormalizeAll(Tail(nodes), [acc EXCEPT !.nodes = Append(@, n.v)])

Accumulated(nodes, edges, recovered) ==
    [all_nodes |-> nodes, all_edges |-> edges, recovered |-> recovered]

\* a loop body that extends all_nodes and leaves all_edges as it was
Extend_dropping_edges(nodes, edges, nodes_so_far, edges_so_far) ==
    IF ~nodes.ok \/ ~Iterable(edges)
    THEN Accumulated(nodes_so_far, edges_so_far, TRUE)
    ELSE Accumulated(nodes_so_far \o nodes.nodes, edges_so_far, TRUE)

\* the try block of the chunk loop (lines 357-371) for a non-empty answer
\* lines 363-364: len(edges) of the debug print raises before either list
\* is extended
Extend(nodes, edges, nodes_so_far, edges_so_far) ==
    IF ~nodes.ok \/ ~Iterable(edges)
    THEN Accumulated(nodes_so_far, edges_so_far, TRUE)
    ELSE Accumulated(nodes_so_far \o nodes.nodes, edges_so_far \o Items(edges), TRUE)

\* lines 357-358: parsed.get raises on the None of parse_erd_json
Normalize(parsed, nodes_so_far, edges_so_far) ==
    IF ~parsed.ok THEN Accumulated(nodes_so_far, edges_so_far, FALSE)
    ELSE Extend(NormalizeAll(Items(DictGet(parsed.v.o, "nodes", JArr(<<>>))),
                             [ok |-> TRUE, nodes |-> <<>>]),
                DictGet(parsed.v.o, "edges", JArr(<<>>)),
                nodes_so_far, edges_so_far)

\* line 354: the ValueError of clean_json_string ends the try block
Parse(cleaned, nodes_so_far, edges_so_far) ==
    IF ~cleaned.ok THEN Accumulated(nodes_so_far, edges_so_far, FALSE)
    ELSE Normalize(parse_erd_json(cleaned.text), nodes_so_far, edges_so_far)

\* the try block of the chunk loop (lines 352-371) for a non-empty answer
TryChunk(raw, nodes_so_far, edges_so_far) ==
    Parse(clean_json_string(raw), nodes_so_far, edges_so_far)

\* the key a value has in a dict or a set
HashKey(v) == v.t \o ":" \o v.s

\* n["id"] raises KeyError without the key and TypeError on a list or dict
NodeKeyRaises(n) == ~DictHas(n.o, "id") \/ ~Hashable(n.o.val["id"])

\* a dict comprehension that keeps the first node of an id
UniqueNodes_first_wins(nodes, acc) ==
    LET keep(d, n) == IF DictHas(d, HashKey(n.o.val["id"])) THEN d
                      ELSE DictSet(d, HashKey(n.o.val["id"]), n)
        F[k \in 0..Len(nodes)] == IF k = 0 THEN acc ELSE keep(F[k - 1], nodes[k])
    IN  F[Len(nodes)]

\* {n["id"]: n for n in all_nodes}
RECURSIVE UniqueNodes(_, _)
UniqueNodes(nodes, acc) ==
    IF nodes = <<>> THEN acc
    ELSE UniqueNodes(Tail(nodes), DictSet(acc, HashKey(Head(nodes).o.val["id"]), Head(nodes)))

\* (e.get("source"), e.get("target"), e.get("label"))
EdgeKey(e) ==
    << HashKey(DictGet(e.o, "source", JNull)),
       HashKey(DictGet(e.o, "target", JNull)),
       HashKey(DictGet(e.o, "label", JNull)) >>

\* e.get raises on anything but a dict; the tuple cannot be hashed when a
\* component is a list or a dict
EdgeKeyRaises(e) ==
    \/ ~IsDict(e)
    \/ \E k \in {"source", "target", "label"} : ~Hashable(DictGet(e.o, k, JNull))

\* a loop that lets a later edge replace the earlier one with its key
UniqueEdges_last_wins(edges, seen, acc) ==
    LET F[k \in 0..Len(edges)] ==
            IF k = 0 THEN acc
            ELSE IF \E m \in (k + 1)..Len(edges) : EdgeKey(edges[m]) = EdgeKey(edges[k])
                 THEN F[k - 1] ELSE Append(F[k - 1], edges[k])
    IN  F[Len(edges)]

\* the loop of lines 377-381
RECURSIVE UniqueEdges(_, _, _)
UniqueEdges(edges, seen, acc) ==
    IF edges = <<>> THEN acc
    ELSE LET key == EdgeKey(Head(edges)) IN
         IF key \in seen THEN UniqueEdges(Tail(edges), seen, acc)
         ELSE UniqueEdges(Tail(edges), seen \cup {key}, Append(acc, Head(edges)))

Failure(message) ==
    [success |-> FALSE, message |-> message, nodes |-> <<>>, edges |-> <<>>]

Success(nodes, edges) ==
    [success |-> TRUE, message |-> "", nodes |-> nodes, edges |-> edges]

\* lines 373-397: the graph that json.dumps serializes, or the error result
\* of the outer except clause
Deduplicate(nodes, edges) ==
    IF \E k \in DOMAIN nodes : NodeKeyRaises(nodes[k]) THEN Failure("KeyError")
    ELSE IF \E k \in DOMAIN edges : EdgeKeyRaises(edges[k]) THEN Failure("AttributeError")
    ELSE Success(DictValues(UniqueNodes(nodes, EmptyDict)), UniqueEdges(edges, {}, <<>>))

(***************************************************************************)
(* Generated text: how the answers of the model are written                *)
(***************************************************************************)
RECURSIVE Join(_, _)
Join(parts, sep) ==
    IF parts = <<>> THEN <<>>
    ELSE IF Len(parts) = 1 THEN parts[1]
    ELSE parts[1] \o <<sep>> \o Join(Tail(parts), sep)

TStr(s) == <<"\"", s, "\"">>
TPair(k, v) == TStr(k) \o <<":">> \o v
TObj(pairs) == <<"{">> \o Join(pairs, ",") \o <<"}">>
TArr(items) == <<"[">> \o Join(items, ",") \o <<"]">>

(***************************************************************************)
(* Dependency graph traversal (src/schema.py)                              *)
(*                                                                         *)
(* A graph is a dict from the table names it has entries for to sets of    *)
(* table names; a target need not have an entry.                           *)
(***************************************************************************)
\* graph.get(table, [])
GraphGet(g, t) == IF DictHas(g, t) THEN g.val[t] ELSE {}

\* a loop body that adds the foreign-key tables without descending
VisitAll_no_descent(g, todo, visited) == visited \cup todo

RECURSIVE resolve_chunk_tables(_, _, _)
RECURSIVE VisitAll(_, _, _)
\* for fk_table in graph.get(table, []): resolve_chunk_tables(graph, fk_table, visited)
\* `visited` is one mutable set shared by all the calls
VisitAll(g, todo, visited) ==
    IF todo = {} THEN visited
    ELSE LET fk_table == CHOOSE x \in todo : TRUE
         IN  VisitAll(g, todo \ {fk_table}, resolve_chunk_tables(g, fk_table, visited))

resolve_chunk_tables(g, t, visited) ==
    IF t \in visited THEN visited
    ELSE VisitAll(g, GraphGet(g, t), visited \cup {t})

(***************************************************************************)
(* Table review (src/analyzecleaning.py)                                   *)
(*                                                                         *)
(* processed_tables and skipped_tables are the two sets of the module.     *)
(* The generated SQL is a text whose token "GO" is the batch separator; a  *)
(* statement with the token "bad" is one that the database rejects.        *)
(***************************************************************************)
None == "<None>"

\* the table names of the model, in the order that sorted() gives them
ReviewNames == <<"A", "B", "C">>

\* sorted(set(row['table_name'] for row in schema))
get_tables_list(database) == SelectSeq(ReviewNames, LAMBDA n : n \in database)

\* next_index before the while loop, counted from 1
StartIndex(names, current_table) ==
    IF current_table = None THEN 1
    ELSE IF \E k \in DOMAIN names : names[k] = current_table
         THEN FirstOf({ k \in DOMAIN names : names[k] = current_table }) + 1
         ELSE 1

\* a loop that passes over the processed tables only
SkipDone_processed_only(names, from, processed, skipped) ==
    FirstOf({ k \in from..Len(names) : names[k] \notin processed })

\* the while loop: the first index at or after `from` whose table is in
\* neither set, 0 when next_index runs past the end of the list
SkipDone(names, from, processed, skipped) ==
    FirstOf({ k \in from..Len(names) : names[k] \notin processed \cup skipped })

\* the two return statements of get_next_table
NextTable(names, k) ==
    IF k = 0
    THEN [done |-> TRUE, table_name |-> None, message |-> "All tables processed or skipped."]
    ELSE [done |-> FALSE, table_name |-> names[k], message |-> ""]

get_next_table(database, current_table, processed, skipped) ==
    NextTable(get_tables_list(database),
              SkipDone(get_tables_list(database),
                       StartIndex(get_tables_list(database), current_table),
                       processed, skipped))

\* what call_llm does: it returns a text or raises
LlmReturned(text) == [ok |-> TRUE, text |-> text]
LlmRaised == [ok |-> FALSE, text |-> <<>>]

\* sql_fix.split("GO"): parts is the list so far, its last part still open
RECURSIVE SplitGo(_, _)
SplitGo(text, parts) ==
    IF text = <<>> THEN parts
    ELSE IF Head(text) = "GO" THEN SplitGo(Tail(text), Append(parts, <<>>))
    ELSE SplitGo(Tail(text), [parts EXCEPT ![Len(parts)] = Append(@, Head(text))])

StripAll(parts) == [k \in DOMAIN parts |-> strip(parts[k])]

\* [stmt.strip() for stmt in sql_fix.split("GO") if stmt.strip()]
Statements(generated) ==
    SelectSeq(StripAll(SplitGo(generated, << <<>> >>)), LAMBDA stmt : stmt # <<>>)

\* execute_query raises on this statement
Rejected(stmt) == \E k \in DOMAIN stmt : stmt[k] = "bad"

\* every statement of the loop ran
AllExecuted(statements) == \A k \in DOMAIN statements : ~Rejected(statements[k])

\* the number of statements that execute_query committed before the loop
\* ended
Executed(statements) ==
    IF AllExecuted(statements) THEN Len(statements)
    ELSE FirstOf({ k \in DOMAIN statements : Rejected(statements[k]) }) - 1

\* the dict apply_fix returns, with what it did on the way: `added` says
\* that processed_tables.add ran, `executed` counts the committed statements
FixResult(success, message, added, executed) ==
    [success |-> success, message |-> message, added |-> added, executed |-> executed]

\* an apply_fix that records the table before it runs the statements
apply_fix_adding_first(generated, reingested) ==
    IF ~generated.ok THEN FixResult(FALSE, "Failed to apply fix", FALSE, 0)
    ELSE IF strip(generated.text) = <<>>
         THEN FixResult(FALSE, "LLM did not return any SQL fix.", FALSE, 0)
    ELSE IF ~AllExecuted(Statements(generated.text))
         THEN FixResult(FALSE, "Failed to apply fix", TRUE, Executed(Statements(generated.text)))
    ELSE IF ~reingested
         THEN FixResult(FALSE, "Failed to apply fix", TRUE, Len(Statements(generated.text)))
    ELSE FixResult(TRUE, "Fix applied successfully", TRUE, Len(Statements(generated.text)))

\* generated is what call_llm did; reingested is FALSE when get_schema or
\* embed_schema raises after processed_tables.add
apply_fix(generated, reingested) ==
    IF ~generated.ok THEN FixResult(FALSE, "Failed to apply fix", FALSE, 0)
    ELSE IF strip(generated.text) = <<>>
         THEN FixResult(FALSE, "LLM did not return any SQL fix.", FALSE, 0)
    ELSE IF ~AllExecuted(Statements(generated.text))
         THEN FixResult(FALSE, "Failed to apply fix", FALSE, Executed(Statements(generated.text)))
    ELSE IF ~reingested
         THEN FixResult(FALSE, "Failed to apply fix", TRUE, Len(Statements(generated.text)))
    ELSE FixResult(TRUE, "Fix applied successfully", TRUE, Len(Statements(generated.text)))

\* the latest call of the three operations: its name, its table argument
\* (current_table for get_next_table), the generated SQL of apply_fix, and
\* the dict it returned (returned = FALSE when it raised instead)
Call(op, arg, sql, returned, out) ==
    [op |-> op, arg |-> arg, sql |-> sql, returned |-> returned, out |-> out]

NoCall == Call("none", None, LlmRaised, FALSE, <<>>)

(***************************************************************************)
(* The values of the variables a specification does not use               *)
(***************************************************************************)
NoResult == [success |-> FALSE, message |-> "pending", nodes |-> <<>>, edges |-> <<>>]

IdleRequest ==
    /\ pc = "idle"
    /\ schema_data = <<>>
    /\ schema_text = <<>>
    /\ summary = <<>>
    /\ tables = <<>>
    /\ table_map = EmptyDict
    /\ sql_fix = <<>>
    /\ fix_index = 0
    /\ column_limit = 0
    /\ schema_chunks = <<>>
    /\ i = 0
    /\ raw_erd = <<>>
    /\ erd_calls = 0
    /\ all_nodes = <<>>
    /\ all_edges = <<>>
    /\ result = NoResult

IdleLlm ==
    /\ max_retries = 0
    /\ base_delay = 0
    /\ service = <<>>
    /\ llm_pc = "idle"
    /\ llm_out = LlmResult(FALSE, <<>>, 0, <<>>)

IdleClosure ==
    /\ table = ""
    /\ closure_pc = "idle"
    /\ closure = {}

IdleClean ==
    /\ clean_in = <<>>
    /\ clean_pc = "idle"
    /\ clean_out = <<>>

IdleParse ==
    /\ parse_in = <<>>
    /\ parse_pc = "idle"
    /\ parse_out = Raised

IdleMerge ==
    /\ merge_in = <<>>
    /\ merge_pc = "idle"
    /\ merge_out = <<>>

IdleReview ==
    /\ processed_tables = {}
    /\ skipped_tables = {}
    /\ db_tables = {}
    /\ applied = 0
    /\ review_out = NoCall

IdleUnits == IdleClean /\ IdleParse /\ IdleMerge /\ IdleReview

(***************************************************************************)
(* Specification SpecLlm: one invocation of call_llm_single                *)
(***************************************************************************)
Texts == { <<>>, <<" ">>, <<"SELECT">>, <<" ", "SELECT", "\n">> }

Answers ==
    { Ok(t) : t \in Texts } \cup
    { Http(429), Http(500), Network, Shape, NullContent, Unconfigured }

InitLlm ==
    /\ max_retries \in 0..MaxRetriesBound
    /\ base_delay \in 1..MaxBaseDelay
    /\ service \in [1..MaxRetriesBound -> Answers]
    /\ llm_pc = "call"
    /\ llm_out = LlmResult(FALSE, <<>>, 0, <<>>)
    /\ IdleClosure
    /\ graph = EmptyDict
    /\ IdleRequest
    /\ IdleUnits

\* result = call_llm_single(prompt, max_retries, base_delay)
LlmCall ==
    /\ llm_pc = "call"
    /\ llm_out' = call_llm_single(service, max_retries, base_delay)
    /\ llm_pc' = "done"
    /\ UNCHANGED <<max_retries, base_delay, service, closure_vars, graph, request_vars,
                   unit_vars>>

NextLlm == LlmCall

SpecLlm == InitLlm /\ [][NextLlm]_vars

(***************************************************************************)
(* Specification SpecClosure: one call of resolve_chunk_tables             *)
(***************************************************************************)
MaxFanout == 2

TableOrder == <<"A", "B", "C">>
Tables == Range(TableOrder)
Dangling == "D"

InitClosure ==
    /\ \E f \in [Tables -> {s \in SUBSET (Tables \cup {Dangling}) : Cardinality(s) <= MaxFanout}] :
           graph = [keys |-> TableOrder, val |-> f]
    /\ table \in Tables \cup {Dangling}
    /\ closure_pc = "call"
    /\ closure = {}
    /\ IdleLlm
    /\ IdleRequest
    /\ IdleUnits

\* closure = resolve_chunk_tables(graph, table)
Resolve ==
    /\ closure_pc = "call"
    /\ closure' = resolve_chunk_tables(graph, table, {})
    /\ closure_pc' = "done"
    /\ UNCHANGED <<graph, table, llm_vars, request_vars, unit_vars>>

NextClosure == Resolve

SpecClosure == InitClosure /\ [][NextClosure]_vars

(***************************************************************************)
(* The answers of the generation service in the model                      *)
(***************************************************************************)
TCol(name, rest) == TObj(<<TPair("name", TStr(name)), TPair("type", TStr("int"))>> \o rest)
TNode(id, label, rest) == TObj(<<TPair("id", TStr(id)), TPair("label", TStr(label))>> \o rest)
TEdge(label, source, sourceHandle, target, targetHandle) ==
    TObj(<< TPair("label", TStr(label)), TPair("source", TStr(source)),
            TPair("sourceHandle", TStr(sourceHandle)), TPair("target", TStr(target)),
            TPair("targetHandle", TStr(targetHandle)) >>)
TGraph(nodes, edges) == TObj(<<TPair("nodes", TArr(nodes)), TPair("edges", TArr(edges))>>)

\* the example_json of the prompt, shortened to the fields the code reads
AnsEmployees ==
    TGraph(<< TNode("Employees", "Employees",
                    << TPair("type", TStr("table")),
                       TPair("columns", TArr(<< TCol("EID", <<TPair("isPrimaryKey", <<"true">>)>>),
                                                TCol("DeptID", <<TPair("isForeignKey", <<"true">>)>>) >>)) >>) >>,
           << TEdge("FK_Employees_DeptID", "Employees", "DeptID", "Departments", "DeptID") >>)

AnsDepartments ==
    TGraph(<< TNode("Departments", "Departments",
                    << TPair("columns", TArr(<< TCol("DeptID", <<>>) >>)) >>) >>, <<>>)

\* wrapped in a json fence, with a sentence after the closing fence
AnsFenced ==
    <<"<fence>", "json", "\n">> \o AnsDepartments \o <<"\n", "<fence>", "\n", "Done", ".">>

\* the final brace is missing
AnsTruncated == SubSeq(AnsEmployees, 1, Len(AnsEmployees) - 1)

AnsProse == <<"Sorry", ".">>

\* balanced braces around text that is no JSON
AnsNotJson == <<"{", "nodes", "}">>

\* an object without the nodes and edges keys
AnsMissingKeys == TObj(<<TPair("tables", TArr(<<>>))>>)

AnsNodeWithoutId == TGraph(<< TObj(<<TPair("label", TStr("Orphan"))>>) >>, <<>>)

AnsEdgeNotObject == TGraph(<<>>, << TStr("Employees") >>)

\* the Employees node and its edge again, with another label and handles
AnsEmployeesAgain ==
    TGraph(<< TNode("Employees", "Staff", <<>>) >>,
           << TEdge("FK_Employees_DeptID", "Employees", "deptid", "Departments", "deptid") >>)

\* the edge inside the node and no top-level edges key
AnsInlineEdges ==
    TObj(<< TPair("nodes", TArr(<< TNode("Orders", "Orders",
               << TPair("edges", TArr(<< TEdge("FK_Orders_EID", "Orders", "EID", "Employees", "EID") >>)) >>) >>)) >>)

AnsEdgesNull ==
    TObj(<< TPair("nodes", TArr(<< TNode("Audit", "Audit", <<>>) >>)), TPair("edges", <<"null">>) >>)

AnsDuplicateColumns ==
    TGraph(<< TNode("Sales", "Sales",
                    << TPair("type", TStr("view")),
                       TPair("columns", TArr(<< TCol("ID", <<>>), TCol("ID", <<TPair("nullable", <<"true">>)>>) >>)) >>) >>,
           <<>>)

ErdAnswers ==
    { <<>>, AnsEmployees, AnsDepartments, AnsFenced, AnsTruncated, AnsProse, AnsNotJson,
      AnsMissingKeys, AnsNodeWithoutId, AnsEdgeNotObject, AnsEmployeesAgain, AnsInlineEdges,
      AnsEdgesNull, AnsDuplicateColumns }

\* what the service does during one call_llm_single for a chunk
ErdScripts == { <<Ok(a)>> : a \in ErdAnswers } \cup { <<Http(429), Ok(AnsEmployees)>>, <<Network>> }

SummaryScripts == { <<Ok(<<"Employees", " ", "is", " ", "fine">>)>>, <<Http(500)>> }

\* a fix that creates a table, against the instructions of the prompt
FixCreatesTable ==
    << "CREATE", " ", "TABLE", " ", "Audit", " ", "(", "ID", " ", "int", ")", ";" >>

FixScripts ==
    { <<Ok(<<"ALTER", " ", "TABLE", " ", "Employees", " ", "ADD", " ", "X", " ", "int", ";", "\n">>)>>,
      <<Ok(FixCreatesTable)>>, <<Shape>> }

CatalogInputs ==
    { <<>>, DepartmentsRows, EmployeesRows \o DepartmentsRows }

(***************************************************************************)
(* Specification Spec: one request to suggest_schema_improvements          *)
(***************************************************************************)
DefaultMaxRetries == 5
DefaultBaseDelay == 2
DefaultMaxColumnsPerChunk == 80

Init ==
    /\ pc = "get_schema"
    /\ schema_data \in CatalogInputs
    /\ schema_text = <<>>
    /\ summary = <<>>
    /\ tables = <<>>
    /\ graph = EmptyDict
    /\ table_map = EmptyDict
    /\ sql_fix = <<>>
    /\ fix_index = 0
    /\ column_limit = DefaultMaxColumnsPerChunk
    /\ schema_chunks = <<>>
    /\ i = 0
    /\ raw_erd = <<>>
    /\ erd_calls = 0
    /\ all_nodes = <<>>
    /\ all_edges = <<>>
    /\ result = NoResult
    /\ IdleLlm
    /\ IdleClosure
    /\ IdleUnits

Finish(r) ==
    /\ result' = r
    /\ pc' = "done"

\* get_schema raises (the connection or the query fails), or returns no row
GetSchemaFails ==
    /\ pc = "get_schema"
    /\ \/ Finish(Failure("Schema retrieval failed"))
       \/ schema_data = <<>> /\ Finish(Failure("Schema data is empty"))
    /\ UNCHANGED <<schema_data, schema_text, summary, tables, graph, table_map, sql_fix,
                   fix_index, column_limit, schema_chunks, i, raw_erd, erd_calls, all_nodes,
                   all_edges, llm_vars, closure_vars, unit_vars>>

\* lines 216-257
Synthesize ==
    /\ pc = "get_schema"
    /\ schema_data # <<>>
    /\ \E ddl \in {SynthesizeDdl(schema_data)} :
       IF ddl.raised
       THEN Finish(Failure("TypeError")) /\ UNCHANGED schema_text
       ELSE schema_text' = ddl.text /\ pc' = "summarize" /\ UNCHANGED result
    /\ UNCHANGED <<schema_data, summary, tables, graph, table_map, sql_fix, fix_index,
                   column_limit, schema_chunks, i, raw_erd, erd_calls, all_nodes, all_edges,
                   llm_vars, closure_vars, unit_vars>>

\* lines 262-275: the summary, then the tables and the dependency graph
Summarize ==
    /\ pc = "summarize"
    /\ \E script \in SummaryScripts :
           summary' = call_llm_single(script, DefaultMaxRetries, DefaultBaseDelay).text
    /\ tables' = split_schema_to_tables(schema_text)
    /\ \E built \in {build_dependency_graph(split_schema_to_tables(schema_text))} :
       /\ graph' = built.graph
       /\ table_map' = built.table_map
    /\ fix_index' = 1
    /\ pc' = "fix"
    /\ UNCHANGED <<schema_data, schema_text, sql_fix, column_limit, schema_chunks, i,
                   raw_erd, erd_calls, all_nodes, all_edges, result, llm_vars, closure_vars, unit_vars>>

\* one iteration of the loop of lines 279-293
FixTable ==
    /\ pc = "fix"
    /\ fix_index <= Len(table_map.keys)
    /\ \E script \in FixScripts :
       \E partial_fix \in {call_llm_single(script, DefaultMaxRetries, DefaultBaseDelay).text} :
           sql_fix' = IF partial_fix # <<>>
                      THEN sql_fix \o strip(partial_fix) \o <<"\n", "GO", "\n">>
                      ELSE sql_fix
    /\ fix_index' = fix_index + 1
    /\ UNCHANGED <<pc, schema_data, schema_text, summary, tables, graph, table_map,
                   column_limit, schema_chunks, i, raw_erd, erd_calls, all_nodes, all_edges,
                   result, llm_vars, closure_vars, unit_vars>>

\* line 297
full_fixed_schema(text, fixes) ==
    text \o (IF fixes # <<>> THEN <<"\n", "\n">> \o fixes ELSE <<>>)

\* lines 295-306: the schema with the fixes is split again and chunked
PlanChunks ==
    /\ pc = "fix"
    /\ fix_index > Len(table_map.keys)
    /\ sql_fix' = strip(sql_fix)
    /\ \E split \in {split_schema_to_tables(full_fixed_schema(schema_text, strip(sql_fix)))} :
       \E built \in {build_dependency_graph(split)} :
           /\ tables' = split
           /\ graph' = built.graph
           /\ table_map' = built.table_map
           /\ schema_chunks' = chunk_tables(built.graph, built.table_map, column_limit)
    /\ i' = 1
    /\ pc' = "chunk"
    /\ UNCHANGED <<schema_data, schema_text, summary, fix_index, column_limit, raw_erd,
                   erd_calls, all_nodes, all_edges, result, llm_vars, closure_vars,
                   unit_vars>>

\* `continue` after a chunk that was skipped
NextChunk_break(index, chunks, recovered) ==
    IF recovered THEN index + 1 ELSE Len(chunks) + 1

\* the chunk the loop of line 308 turns to after chunk `index`
NextChunk(index, chunks, recovered) == index + 1

\* lines 347-371: an empty answer is skipped before the try block
ChunkBody(raw, nodes_so_far, edges_so_far) ==
    IF raw = <<>> THEN Accumulated(nodes_so_far, edges_so_far, FALSE)
    ELSE TryChunk(raw, nodes_so_far, edges_so_far)

\* one iteration of the loop of lines 308-371
ProcessChunk ==
    /\ pc = "chunk"
    /\ i <= Len(schema_chunks)
    /\ \E script \in ErdScripts :
       \E raw \in {call_llm_single(script, DefaultMaxRetries, DefaultBaseDelay).text} :
       \E got \in {ChunkBody(raw, all_nodes, all_edges)} :
           /\ raw_erd' = raw
           /\ erd_calls' = erd_calls + 1
           /\ all_nodes' = got.all_nodes
           /\ all_edges' = got.all_edges
           /\ i' = NextChunk(i, schema_chunks, got.recovered)
    /\ UNCHANGED <<pc, schema_data, schema_text, summary, tables, graph, table_map, sql_fix,
                   fix_index, column_limit, schema_chunks, result, llm_vars,
                   closure_vars, unit_vars>>

\* a deduplication that does not wait for the last chunk
Merge_early ==
    /\ pc = "chunk"
    /\ Finish(Deduplicate(all_nodes, all_edges))
    /\ UNCHANGED <<schema_data, schema_text, summary, tables, graph, table_map, sql_fix,
                   fix_index, column_limit, schema_chunks, i, raw_erd, erd_calls, all_nodes,
                   all_edges, llm_vars, closure_vars, unit_vars>>

\* lines 373-397
Merge ==
    /\ pc = "chunk"
    /\ i > Len(schema_chunks)
    /\ Finish(Deduplicate(all_nodes, all_edges))
    /\ UNCHANGED <<schema_data, schema_text, summary, tables, graph, table_map, sql_fix,
                   fix_index, column_limit, schema_chunks, i, raw_erd, erd_calls, all_nodes,
                   all_edges, llm_vars, closure_vars, unit_vars>>

Next ==
    \/ GetSchemaFails
    \/ Synthesize
    \/ Summarize
    \/ FixTable
    \/ PlanChunks
    \/ ProcessChunk
    \/ Merge

Spec == Init /\ [][Next]_vars

(***************************************************************************)
(* Specification SpecChunks: build_dependency_graph and chunk_tables on a  *)
(* list of table blocks, as a unit                                         *)
(***************************************************************************)
MaxTables == 3

\* a CREATE TABLE block with one column and one foreign key per target
RECURSIVE ForeignKeyLines(_)
ForeignKeyLines(targets) ==
    IF targets = <<>> THEN <<>>
    ELSE << ",", "\n", " ", " ", "FOREIGN", " ", "KEY", " ", "(", "ID", ")", " ",
            "REFERENCES", " ", Head(targets), "(", "ID", ")" >>
         \o ForeignKeyLines(Tail(targets))

Block(name, targets) ==
    << "CREATE", " ", "TABLE", " ", "[", name, "]", " ", "(", "\n", " ", " ",
       "[", "ID", "]", " ", "int" >> \o ForeignKeyLines(targets) \o << "\n", ")", ";" >>

\* a statement in which the name pattern finds no table
NoTableBlock == << "ALTER", " ", "TABLE", " ", "A", " ", "ADD", " ", "X", " ", "int", ";" >>

\* B1 and B2 are two blocks of the table B
BlockA == Block("A", <<>>)
BlockB1 == Block("B", <<"A">>)
BlockB2 == Block("B", <<"A", "C">>)
BlockC == Block("C", <<"B", "A", "C">>)

Blocks == { BlockA, BlockB1, BlockB2, BlockC, NoTableBlock }

BlockLists == UNION { [1..n -> Blocks] : n \in 0..MaxTables }

ColumnLimits == { 1, DefaultMaxColumnsPerChunk }

InitChunks ==
    /\ pc = "build_dependency_graph"
    /\ tables \in BlockLists
    /\ column_limit \in ColumnLimits
    /\ graph = EmptyDict
    /\ table_map = EmptyDict
    /\ schema_chunks = <<>>
    /\ schema_data = <<>>
    /\ schema_text = <<>>
    /\ summary = <<>>
    /\ sql_fix = <<>>
    /\ fix_index = 0
    /\ i = 0
    /\ raw_erd = <<>>
    /\ erd_calls = 0
    /\ all_nodes = <<>>
    /\ all_edges = <<>>
    /\ result = NoResult
    /\ IdleLlm
    /\ IdleClosure
    /\ IdleUnits

BuildGraph ==
    /\ pc = "build_dependency_graph"
    /\ \E built \in {build_dependency_graph(tables)} :
           /\ graph' = built.graph
           /\ table_map' = built.table_map
    /\ pc' = "chunk_tables"
    /\ UNCHANGED <<schema_data, schema_text, summary, tables, sql_fix, fix_index,
                   column_limit, schema_chunks, i, raw_erd, erd_calls, all_nodes, all_edges,
                   result, llm_vars, closure_vars, unit_vars>>

ChunkTables ==
    /\ pc = "chunk_tables"
    /\ schema_chunks' = chunk_tables(graph, table_map, column_limit)
    /\ pc' = "planned"
    /\ UNCHANGED <<schema_data, schema_text, summary, tables, graph, table_map, sql_fix,
                   fix_index, column_limit, i, raw_erd, erd_calls, all_nodes, all_edges,
                   result, llm_vars, closure_vars, unit_vars>>

NextChunks ==
    \/ BuildGraph
    \/ ChunkTables

SpecChunks == InitChunks /\ [][NextChunks]_vars

(***************************************************************************)
(* Specification SpecClean: clean_json_string as a unit, applied to a      *)
(* text and then to its own result                                         *)
(***************************************************************************)
MaxTextLen == 5

TextTokens == { "{", "}", "<fence>", "json", " ", "x" }

RawTexts == UNION { [1..n -> TextTokens] : n \in 0..MaxTextLen }

InitClean ==
    /\ clean_in \in RawTexts
    /\ clean_pc = "call"
    /\ clean_out = <<>>
    /\ IdleParse
    /\ IdleMerge
    /\ IdleReview
    /\ IdleLlm
    /\ IdleClosure
    /\ graph = EmptyDict
    /\ IdleRequest

\* clean_out[1] = clean_json_string(clean_in)
CleanCall ==
    /\ clean_pc = "call"
    /\ clean_out' = <<clean_json_string(clean_in)>>
    /\ clean_pc' = "done"
    /\ UNCHANGED <<clean_in, parse_vars, merge_vars, review_vars, llm_vars, closure_vars, graph,
                   request_vars>>

\* clean_out[2] = clean_json_string(clean_out[1]), when the first call
\* returned
CleanAgain ==
    /\ clean_pc = "done"
    /\ clean_out[1].ok
    /\ clean_out' = Append(clean_out, clean_json_string(clean_out[1].text))
    /\ clean_pc' = "twice"
    /\ UNCHANGED <<clean_in, parse_vars, merge_vars, review_vars, llm_vars, closure_vars, graph,
                   request_vars>>

NextClean ==
    \/ CleanCall
    \/ CleanAgain

SpecClean == InitClean /\ [][NextClean]_vars

(***************************************************************************)
(* Specification SpecReview: any sequence of get_next_table, apply_fix and *)
(* skip_table calls on one database                                        *)
(***************************************************************************)
MaxApplied == 3

ReviewDatabases == { {}, {"A", "B"}, {"A", "B", "C"} }

TableArguments == { ReviewNames[k] : k \in DOMAIN ReviewNames }

FixOutcomes ==
    { LlmRaised, LlmReturned(<<>>), LlmReturned(<<"GO">>), LlmReturned(<<"ok1">>),
      LlmReturned(<<"USE", "\n", "GO", "\n", "ok1", "\n", "GO", "\n", "ok2">>),
      LlmReturned(<<"bad">>),
      LlmReturned(<<"ok1", "\n", "GO", "\n", "bad", " ", "x", "\n", "GO", "\n", "ok2">>) }

InitReview ==
    /\ processed_tables = {}
    /\ skipped_tables = {}
    /\ db_tables \in ReviewDatabases
    /\ applied = 0
    /\ review_out = NoCall
    /\ IdleClean
    /\ IdleParse
    /\ IdleMerge
    /\ IdleLlm
    /\ IdleClosure
    /\ graph = EmptyDict
    /\ IdleRequest

\* get_next_table(database, current_table) returns
GetNextTable ==
    /\ \E current_table \in TableArguments \cup {None} :
           review_out' = Call("get_next_table", current_table, LlmRaised, TRUE,
                              get_next_table(db_tables, current_table, processed_tables,
                                             skipped_tables))
    /\ UNCHANGED <<processed_tables, skipped_tables, db_tables, applied, clean_vars,
                   parse_vars, merge_vars, llm_vars, closure_vars, graph, request_vars>>

\* get_schema or the sample query of get_next_table raises
GetNextTableRaises ==
    /\ \E current_table \in TableArguments \cup {None} :
           review_out' = Call("get_next_table", current_table, LlmRaised, FALSE, <<>>)
    /\ UNCHANGED <<processed_tables, skipped_tables, db_tables, applied, clean_vars,
                   parse_vars, merge_vars, llm_vars, closure_vars, graph, request_vars>>

\* apply_fix(database, table_name, fix_description)
ApplyFix ==
    /\ \E table_name \in TableArguments : \E generated \in FixOutcomes :
       \E reingested \in BOOLEAN : \E fixed \in {apply_fix(generated, reingested)} :
           /\ applied + fixed.executed <= MaxApplied
           /\ applied' = applied + fixed.executed
           /\ processed_tables' = IF fixed.added THEN processed_tables \cup {table_name}
                                   ELSE processed_tables
           /\ review_out' = Call("apply_fix", table_name, generated, TRUE,
                                  [success |-> fixed.success, message |-> fixed.message])
    /\ UNCHANGED <<skipped_tables, db_tables, clean_vars, parse_vars, merge_vars,
                   llm_vars, closure_vars, graph, request_vars>>

\* skip_table(table_name)
SkipTable ==
    /\ \E table_name \in TableArguments :
           /\ skipped_tables' = skipped_tables \cup {table_name}
           /\ review_out' = Call("skip_table", table_name, LlmRaised, TRUE,
                                  [success |-> TRUE, message |-> "skipped"])
    /\ UNCHANGED <<processed_tables, db_tables, applied, clean_vars, parse_vars,
                   merge_vars, llm_vars, closure_vars, graph, request_vars>>

NextReview ==
    \/ GetNextTable
    \/ GetNextTableRaises
    \/ ApplyFix
    \/ SkipTable

SpecReview == InitReview /\ [][NextReview]_vars

(***************************************************************************)
(* Specification SpecMerge: the results of two chunks, accumulated and     *)
(* deduplicated in both orders                                             *)
(***************************************************************************)
\* the Departments node with the foreign key of Employees restated, in
\* other handle casing
AnsDepartmentsRestated ==
    TGraph(<< TNode("Departments", "Departments", <<>>) >>,
           << TEdge("FK_Employees_DeptID", "Employees", "DEPTID", "Departments", "DEPTID") >>)

MergeAnswers ==
    { AnsEmployees, AnsDepartments, AnsEmployeesAgain, AnsDepartmentsRestated, AnsInlineEdges,
      AnsDuplicateColumns, AnsTruncated, AnsNodeWithoutId }

\* what one chunk adds to empty lists
ChunkResult(answer) == ChunkBody(answer, <<>>, <<>>)

\* lines 366-367 for the chunks in the given order, then lines 373-397
MergeChunks(first, second) ==
    Deduplicate(first.all_nodes \o second.all_nodes, first.all_edges \o second.all_edges)

InitMerge ==
    /\ merge_in \in { <<ChunkResult(a), ChunkResult(b)>> : a, b \in MergeAnswers }
    /\ merge_pc = "merge"
    /\ merge_out = <<>>
    /\ IdleClean
    /\ IdleParse
    /\ IdleReview
    /\ IdleLlm
    /\ IdleClosure
    /\ graph = EmptyDict
    /\ IdleRequest

\* merge_out[1] is the result for the order [X, Y], merge_out[2] for [Y, X]
MergeBothOrders ==
    /\ merge_pc = "merge"
    /\ merge_out' = << MergeChunks(merge_in[1], merge_in[2]),
                       MergeChunks(merge_in[2], merge_in[1]) >>
    /\ merge_pc' = "done"
    /\ UNCHANGED <<merge_in, clean_vars, parse_vars, review_vars, llm_vars, closure_vars, graph,
                   request_vars>>

NextMerge == MergeBothOrders

SpecMerge == InitMerge /\ [][NextMerge]_vars

(***************************************************************************)
(* Claims about call_llm_single (SpecLlm)                                  *)
(***************************************************************************)
Min(a, b) == IF a <= b THEN a ELSE b

RateLimited(answer) == answer.kind = "http" /\ answer.status = 429

\* a failure of one request that is not a rate-limit response
OtherFailure(answer) == answer.kind # "ok" /\ ~RateLimited(answer)

\* the number of rate-limit answers the service gives before its first other
\* answer, counted over the first n requests
RECURSIVE LeadingRateLimits(_, _)
LeadingRateLimits(script, n) ==
    IF n = 0 \/ script = <<>> \/ ~RateLimited(Head(script)) THEN 0
    ELSE 1 + LeadingRateLimits(Tail(script), n - 1)

\* C4: a rate-limit response (HTTP 429) is retried: after n rate-limit
\* answers the (n+1)-th request is made (up to max_retries requests), the
\* k-th retry is preceded by a wait of base_delay * 2^k, and the text of a
\* later successful attempt is returned.
C4_RateLimitIsRetried ==
    llm_pc = "done" =>
        LET n == LeadingRateLimits(service, max_retries)
            expected_calls == Min(n + 1, max_retries)
        IN  /\ llm_out.calls = expected_calls
            /\ Len(llm_out.waits) >= expected_calls - 1
            /\ \A k \in 0..(expected_calls - 2) :
                   llm_out.waits[k + 1] = base_delay * Pow2(k)
            /\ (n < max_retries /\ service[n + 1].kind = "ok")
                   => llm_out.text = strip(service[n + 1].content)

\* C5: call_llm_single never raises, returns a string, makes at most
\* max_retries requests, and returns the empty string when every one of the
\* max_retries attempts is answered by a rate-limit response.
C5_NeverRaisesBounded ==
    llm_pc = "done" =>
        /\ ~llm_out.raised
        /\ llm_out.text \in Seq({" ", "\n", "SELECT"})
        /\ llm_out.calls <= max_retries
        /\ (\A k \in 1..max_retries : RateLimited(service[k])) => llm_out.text = <<>>

C5_Witness ==
    /\ llm_pc = "done"
    /\ max_retries >= 1
    /\ \A k \in 1..max_retries : RateLimited(service[k])
    /\ llm_out.calls >= 1
    /\ llm_out.text = <<>>

\* C6: a request that fails with anything other than a rate-limit response
\* is the last one: no further request, no wait after it, and the empty
\* string is returned.
C6_OtherFailureNotRetried ==
    llm_pc = "done" =>
        \A j \in 1..llm_out.calls :
            OtherFailure(service[j]) =>
                /\ llm_out.calls = j
                /\ Len(llm_out.waits) <= j - 1
                /\ llm_out.text = <<>>
                /\ ~llm_out.raised

C6_Witness ==
    /\ llm_pc = "done"
    /\ llm_out.calls = 1
    /\ service[1] \in {Network, Shape, Http(500)}
    /\ llm_out.waits = <<>>
    /\ llm_out.text = <<>>

(***************************************************************************)
(* Claims about resolve_chunk_tables (SpecClosure)                         *)
(***************************************************************************)
\* the tables reachable from the tables of R in at most n foreign-key steps
RECURSIVE ReachWithin(_, _, _)
ReachWithin(g, R, n) ==
    IF n = 0 THEN R
    ELSE ReachWithin(g, R \cup UNION { GraphGet(g, t) : t \in R }, n - 1)

Reachable(g, start) == ReachWithin(g, {start}, Len(g.keys) + 1)

CycleABC ==
    [keys |-> TableOrder,
     val |-> [t \in Tables |-> CASE t = "A" -> {"B"} [] t = "B" -> {"C"} [] OTHER -> {"A"}]]

\* C7: resolve_chunk_tables returns exactly the tables reachable from the
\* start table along foreign-key edges, the start table included, also with
\* self-references, cycles and dangling targets; A->B->C->A from A gives
\* {A, B, C}.
C7_ClosureIsReachableSet ==
    closure_pc = "done" =>
        /\ closure = Reachable(graph, table)
        /\ table \in closure
        /\ (graph = CycleABC /\ table = "A") => closure = {"A", "B", "C"}

C7_Witness ==
    /\ closure_pc = "done"
    /\ graph = CycleABC
    /\ table = "A"
    /\ closure = {"A", "B", "C"}

(***************************************************************************)
(* Claims about build_dependency_graph and chunk_tables (SpecChunks)       *)
(***************************************************************************)
\* the index of the first block of `blocks` that has the table name of `ddl`
FirstBlockOf(blocks, ddl) ==
    FirstOf({ k \in DOMAIN blocks : extract_table_name(blocks[k]) = extract_table_name(ddl) })

TableNames(blocks) == { extract_table_name(blocks[k]) : k \in DOMAIN blocks }

\* C8: the chunks cover every table exactly once: one chunk per table name,
\* each chunk a DDL block of its table (the list of blocks itself when no
\* name repeats), in the order in which the tables were discovered, whatever
\* the foreign keys of the blocks and whatever max_columns_per_chunk.
C8_OneChunkPerTable ==
    pc = "planned" =>
        /\ Len(schema_chunks) = Cardinality(TableNames(tables))
        /\ TableNames(schema_chunks) = TableNames(tables)
        /\ \A k \in DOMAIN schema_chunks : schema_chunks[k] \in Range(tables)
        /\ \A j, k \in DOMAIN schema_chunks :
               j < k => FirstBlockOf(tables, schema_chunks[j]) < FirstBlockOf(tables, schema_chunks[k])
        /\ Cardinality(TableNames(tables)) = Len(tables) => schema_chunks = tables

C8_Witness ==
    /\ pc = "planned"
    /\ tables = <<BlockC, BlockA, BlockB1>>
    /\ column_limit = 1
    /\ graph.val["C"] = {"A", "B", "C"}
    /\ schema_chunks = <<BlockC, BlockA, BlockB1>>

(***************************************************************************)
(* Claims about suggest_schema_improvements (Spec)                         *)
(***************************************************************************)
\* the request got as far as the chunk loop: the catalog returned rows and
\* the DDL was synthesized, summarized, fixed and chunked
ReachedChunkLoop == i >= 1

\* C1: a request whose catalog rows were turned into chunks ends with a
\* successful result that carries the graph, whatever text the service
\* returned for the chunks.
C1_AlwaysReturnsGraph ==
    (pc = "done" /\ ReachedChunkLoop) => result.success

\* recovery of the generated text fails: clean_json_string raises, or
\* parse_erd_json returns None
RecoveryFails(raw) ==
    raw # <<>> /\ (~clean_json_string(raw).ok \/ ~parse_erd_json(clean_json_string(raw).text).ok)

\* the four causes of a failed recovery
NoBrace(raw) == \A k \in DOMAIN raw : raw[k] # "{"
Unbalanced(raw) == ~NoBrace(raw) /\ ~clean_json_string(raw).ok

\* C2: a chunk whose generated text cannot be recovered adds no node and no
\* edge, and the loop turns to the next chunk.
C2_FailedChunkIsSkipped ==
    [][ (pc = "chunk" /\ i <= Len(schema_chunks) /\ RecoveryFails(raw_erd'))
            => /\ all_nodes' = all_nodes
               /\ all_edges' = all_edges
               /\ i' = i + 1
               /\ pc' = "chunk" ]_vars

\* the answer to the first of several chunks has lost its final brace
C2_Witness ==
    /\ pc = "chunk"
    /\ raw_erd = AnsTruncated
    /\ Unbalanced(raw_erd)
    /\ RecoveryFails(raw_erd)
    /\ i = 2
    /\ i <= Len(schema_chunks)
    /\ all_nodes = <<>>
    /\ all_edges = <<>>

\* the rows of the catalog that hold a foreign key
ForeignKeyRows == { k \in DOMAIN schema_data : schema_data[k].is_foreign_key }

\* C3: the graph built from the synthesized DDL has, for every foreign-key
\* row, the referenced table in the entry of the referencing table.
C3_ForeignKeysReachGraph ==
    pc = "fix" =>
        \A k \in ForeignKeyRows :
            /\ DictHas(graph, schema_data[k].table_name)
            /\ schema_data[k].referenced_table \in graph.val[schema_data[k].table_name]

\* the indexes of the accumulated nodes that have the id of node n
SameId(n) == { k \in DOMAIN all_nodes : all_nodes[k].o.val["id"] = n.o.val["id"] }

\* the deduplication reads an id of every node and a key of every edge
Keyed ==
    /\ \A k \in DOMAIN all_nodes : ~NodeKeyRaises(all_nodes[k])
    /\ \A k \in DOMAIN all_edges : ~EdgeKeyRaises(all_edges[k])

\* C9: the final node list has one node per id, the one that the latest
\* chunk contributed, and ids that repeat do not make the merge fail.
C9_NodesLastWriteWins ==
    (pc = "done" /\ ReachedChunkLoop) =>
        /\ Keyed => result.success
        /\ result.success =>
              /\ \A j, k \in DOMAIN result.nodes :
                     result.nodes[j].o.val["id"] = result.nodes[k].o.val["id"] => j = k
              /\ \A k \in DOMAIN all_nodes :
                     \E j \in DOMAIN result.nodes :
                         result.nodes[j] = all_nodes[LastOf(SameId(all_nodes[k]))]
              /\ \A j \in DOMAIN result.nodes :
                     \E k \in DOMAIN all_nodes :
                         result.nodes[j] = all_nodes[LastOf(SameId(all_nodes[k]))]

\* two chunks gave a node with the id Employees, with different labels
C9_Witness ==
    /\ pc = "done"
    /\ result.success
    /\ Len(all_nodes) = 2
    /\ all_nodes[1].o.val["id"] = JStr("Employees")
    /\ all_nodes[2].o.val["id"] = JStr("Employees")
    /\ all_nodes[1] # all_nodes[2]
    /\ result.nodes = <<all_nodes[2]>>

\* the key of an edge: its source, target and label
KeyOf(e) == << DictGet(e.o, "source", JNull), DictGet(e.o, "target", JNull),
              DictGet(e.o, "label", JNull) >>

\* the indexes of the accumulated edges that have the key of edge e
SameKey(e) == { k \in DOMAIN all_edges : KeyOf(all_edges[k]) = KeyOf(e) }

\* C10: the final edge list has one edge per key (source, target, label),
\* the first one in chunk order, in the order of the first occurrences.
C10_EdgesFirstWins ==
    (pc = "done" /\ ReachedChunkLoop /\ result.success) =>
        /\ \A j, k \in DOMAIN result.edges :
               KeyOf(result.edges[j]) = KeyOf(result.edges[k]) => j = k
        /\ \A k \in DOMAIN all_edges :
               \E j \in DOMAIN result.edges :
                   result.edges[j] = all_edges[FirstOf(SameKey(all_edges[k]))]
        /\ \A j \in DOMAIN result.edges :
               \E k \in DOMAIN all_edges :
                   result.edges[j] = all_edges[FirstOf(SameKey(all_edges[k]))]

\* two chunks gave the edge FK_Employees_DeptID, with different handles
C10_Witness ==
    /\ pc = "done"
    /\ result.success
    /\ Len(all_edges) = 2
    /\ KeyOf(all_edges[1]) = KeyOf(all_edges[2])
    /\ all_edges[1].o.val["sourceHandle"] = JStr("DeptID")
    /\ all_edges[2].o.val["sourceHandle"] = JStr("deptid")
    /\ result.edges = <<all_edges[1]>>

(***************************************************************************)
(* Claims about the merge of two chunk results (SpecMerge)                 *)
(***************************************************************************)
IdOf(n) == n.o.val["id"]

NodeIds(nodes) == { IdOf(nodes[k]) : k \in DOMAIN nodes }

EdgeKeys(edges) == { KeyOf(edges[k]) : k \in DOMAIN edges }

\* the last node of `nodes` with the given id, the first edge of `edges`
\* with the given key
LastWithId(nodes, id) == nodes[LastOf({ k \in DOMAIN nodes : IdOf(nodes[k]) = id })]
FirstWithKey(edges, key) == edges[FirstOf({ k \in DOMAIN edges : KeyOf(edges[k]) = key })]

\* both chunk results can be deduplicated: every node has an id
BothKeyed ==
    \A c \in 1..2 : \A k \in DOMAIN merge_in[c].all_nodes : ~NodeKeyRaises(merge_in[c].all_nodes[k])

\* C11: with disjoint node ids the orders [X, Y] and [Y, X] give the same
\* set of final nodes; for a shared node id the final node is the one of the
\* chunk merged last, for a shared edge key the final edge is the one of the
\* chunk merged first.
C11_MergeOrder ==
    (merge_pc = "done" /\ BothKeyed) =>
        LET X == merge_in[1]
            Y == merge_in[2]
            XY == merge_out[1]
            YX == merge_out[2]
        IN  /\ XY.success /\ YX.success
            /\ NodeIds(X.all_nodes) \cap NodeIds(Y.all_nodes) = {}
                   => Range(XY.nodes) = Range(YX.nodes)
            /\ \A id \in NodeIds(X.all_nodes) \cap NodeIds(Y.all_nodes) :
                   /\ LastWithId(XY.nodes, id) = LastWithId(Y.all_nodes, id)
                   /\ LastWithId(YX.nodes, id) = LastWithId(X.all_nodes, id)
            /\ \A key \in EdgeKeys(X.all_edges) \cap EdgeKeys(Y.all_edges) :
                   /\ FirstWithKey(XY.edges, key) = FirstWithKey(X.all_edges, key)
                   /\ FirstWithKey(YX.edges, key) = FirstWithKey(Y.all_edges, key)

\* Employees in both chunks, with different labels and handles, and the
\* two orders differ in the node and in the edge
C11_Witness ==
    /\ merge_pc = "done"
    /\ merge_in = <<ChunkResult(AnsEmployees), ChunkResult(AnsEmployeesAgain)>>
    /\ merge_out[1].success
    /\ merge_out[1].nodes # merge_out[2].nodes
    /\ merge_out[1].edges # merge_out[2].edges
    /\ merge_out[1].nodes = merge_in[2].all_nodes
    /\ merge_out[1].edges = merge_in[1].all_edges

(***************************************************************************)
(* Claims about the order of the final graph (Spec)                        *)
(***************************************************************************)
\* the index at which the id of node n, the key of edge e, was first added
FirstInsertionOfId(n) == FirstOf({ k \in DOMAIN all_nodes : IdOf(all_nodes[k]) = IdOf(n) })
FirstInsertionOfKey(e) == FirstOf({ k \in DOMAIN all_edges : KeyOf(all_edges[k]) = KeyOf(e) })

\* C12: the final nodes are in the order in which their ids were first
\* inserted and the final edges in the order in which their keys were first
\* inserted over the chunk sequence; nothing is sorted again.
C12_FirstInsertionOrder ==
    (pc = "done" /\ ReachedChunkLoop /\ result.success) =>
        /\ \A j, k \in DOMAIN result.nodes :
               j < k => FirstInsertionOfId(result.nodes[j]) < FirstInsertionOfId(result.nodes[k])
        /\ \A j, k \in DOMAIN result.edges :
               j < k => FirstInsertionOfKey(result.edges[j]) < FirstInsertionOfKey(result.edges[k])

\* Employees, Departments, Employees again: first-insertion order is neither
\* the alphabetical order nor the order of the last insertions
C12_Witness ==
    /\ pc = "done"
    /\ result.success
    /\ Len(all_nodes) = 3
    /\ IdOf(all_nodes[1]) = JStr("Employees")
    /\ IdOf(all_nodes[2]) = JStr("Departments")
    /\ IdOf(all_nodes[3]) = JStr("Employees")
    /\ all_nodes[1] # all_nodes[3]
    /\ result.nodes = <<all_nodes[3], all_nodes[2]>>

(***************************************************************************)
(* Claims about clean_json_string (SpecClean)                              *)
(***************************************************************************)
\* the brace depth of text s after index c, counted from index a
Depth(s, a, c) ==
    Cardinality({ j \in a..c : s[j] = "{" }) - Cardinality({ j \in a..c : s[j] = "}" })

\* a is the first opening brace of s
FirstBrace(s, a) == a \in DOMAIN s /\ s[a] = "{" /\ \A j \in 1..(a - 1) : s[j] # "{"

\* b is the first closing brace after a at which the depth is zero again
DepthReturnsAt(s, a, b) ==
    /\ b \in a..Len(s)
    /\ s[b] = "}"
    /\ Depth(s, a, b) = 0
    /\ \A c \in a..(b - 1) : Depth(s, a, c) > 0

\* C13: clean_json_string returns the part of its input from the first
\* opening brace to the first closing brace at which the depth is zero
\* again, and fails exactly when the input has no opening brace or the
\* depth never returns to zero after the first one.
C13_BalancedObjectOrError ==
    clean_pc # "call" =>
        /\ clean_out[1].ok =>
               \E a \in DOMAIN clean_in : \E b \in DOMAIN clean_in :
                   /\ FirstBrace(clean_in, a)
                   /\ DepthReturnsAt(clean_in, a, b)
                   /\ clean_out[1].text = SubSeq(clean_in, a, b)
        /\ ~clean_out[1].ok <=>
               \/ \A a \in DOMAIN clean_in : clean_in[a] # "{"
               \/ \E a \in DOMAIN clean_in :
                      /\ FirstBrace(clean_in, a)
                      /\ \A b \in DOMAIN clean_in : ~DepthReturnsAt(clean_in, a, b)

\* a fenced object with text after its closing brace
C13_Witness ==
    /\ clean_pc = "done"
    /\ clean_in = <<"<fence>", "json", "{", "}", "x">>
    /\ clean_out[1].ok
    /\ clean_out[1].text = <<"{", "}">>

\* C14: clean_json_string applied to a text it returned returns that text.
C14_CleanIsIdempotent ==
    clean_pc = "twice" =>
        /\ clean_out[2].ok
        /\ clean_out[2].text = clean_out[1].text

\* a nested object between fences
C14_Witness ==
    /\ clean_pc = "twice"
    /\ clean_in = <<"<fence>", "{", "{", "}", "}">>
    /\ clean_out[1].text = <<"{", "{", "}", "}">>
    /\ clean_out[2] = clean_out[1]

(***************************************************************************)
(* Specification SpecSynth: the request from get_schema to the first       *)
(* dependency graph, over catalog rows with absent and null fields         *)
(***************************************************************************)
MaxRows == 3

RowKeys ==
    { "table_name", "column_name", "data_type", "max_length", "is_nullable",
      "is_primary_key", "is_foreign_key", "referenced_table", "referenced_column" }

\* the row dict without the keys in `keys`
WithAbsent(row, keys) == [row EXCEPT !.absent = @ \cup keys]

\* the row dict with None under the keys in `keys`
WithNull(row, keys) == [row EXCEPT !.null = @ \cup keys]

\* varchar(max) has max_length -1 in sys.columns
SampleRows ==
    { Row("A", "ID", "int", 4, FALSE, TRUE, FALSE, "", ""),
      Row("A", "Name", "varchar", -1, TRUE, FALSE, FALSE, "", ""),
      Row("A", "Code", "NVARCHAR", 50, TRUE, FALSE, FALSE, "", ""),
      Row("B", "ID", "int", 4, FALSE, TRUE, FALSE, "", ""),
      Row("Order Details", "Qty", "VARCHAR", 0, FALSE, FALSE, FALSE, "", ""),
      WithNull(Row("B", "Note", "VARCHAR", 0, TRUE, FALSE, FALSE, "", ""), {"max_length"}),
      WithAbsent(Row("B", "", "", 0, TRUE, FALSE, FALSE, "", ""), RowKeys \ {"table_name"}),
      WithAbsent(Row("", "Lost", "int", 4, TRUE, FALSE, FALSE, "", ""), {"table_name"}) }

SynthInputs == UNION { [1..n -> SampleRows] : n \in 0..MaxRows }

InitSynth ==
    /\ pc = "get_schema"
    /\ schema_data \in SynthInputs
    /\ schema_text = <<>>
    /\ summary = <<>>
    /\ tables = <<>>
    /\ graph = EmptyDict
    /\ table_map = EmptyDict
    /\ sql_fix = <<>>
    /\ fix_index = 0
    /\ column_limit = DefaultMaxColumnsPerChunk
    /\ schema_chunks = <<>>
    /\ i = 0
    /\ raw_erd = <<>>
    /\ erd_calls = 0
    /\ all_nodes = <<>>
    /\ all_edges = <<>>
    /\ result = NoResult
    /\ IdleLlm
    /\ IdleClosure
    /\ IdleUnits

NextSynth ==
    \/ GetSchemaFails
    \/ Synthesize
    \/ Summarize

SpecSynth == InitSynth /\ [][NextSynth]_vars

(***************************************************************************)
(* Claims about the DDL synthesis (SpecSynth)                              *)
(***************************************************************************)
\* the rows the loop does not skip
NamedRows(rows) == SelectSeq(rows, LAMBDA row : Present(row, "table_name"))

\* the table names of the rows, each once, in the order of first appearance
RECURSIVE FirstSeen(_, _)
FirstSeen(rows, seen) ==
    IF rows = <<>> THEN seen
    ELSE FirstSeen(Tail(rows),
                   IF \E k \in DOMAIN seen : seen[k] = Head(rows).table_name
                   THEN seen ELSE Append(seen, Head(rows).table_name))

\* the increasing enumeration of a finite set of indexes
RECURSIVE Ascending(_)
Ascending(S) ==
    IF S = {} THEN <<>> ELSE <<FirstOf(S)>> \o Ascending(S \ {FirstOf(S)})

\* the indexes of the CREATE tokens that open a block of the text
HeaderStarts(s) ==
    Ascending({ k \in DOMAIN s : s[k] = "CREATE" /\ At(s, k + 2) = "TABLE" /\ At(s, k + 4) = "[" })

\* the indexes of the "[" that open a column line of the text
ColumnStarts(s) ==
    Ascending({ k \in DOMAIN s : s[k] = "[" /\ At(s, k - 1) = " " /\ At(s, k - 2) = " "
                                   /\ At(s, k - 3) = "\n" })

\* the tokens between the bracket at index k and its closing bracket
Bracketed(s, k) == SubSeq(s, k + 1, IndexOf(s, "]", k) - 1)

\* the column names written between the header at index h and the next
\* header
BlockColumns(s, h) ==
    LET next == FirstOf({ k \in Range(HeaderStarts(s)) : k > h })
        upto == IF next = 0 THEN Len(s) ELSE next
        cols == SelectSeq(ColumnStarts(s), LAMBDA k : h < k /\ k < upto)
    IN  [k \in DOMAIN cols |-> Bracketed(s, cols[k])]

\* the name a row's column is written under
WrittenName(row) ==
    IF "column_name" \in row.absent THEN <<"UnknownColumn">>
    ELSE IF "column_name" \in row.null THEN <<"None">>
    ELSE NameTokens(row.column_name)

\* the written column names of the rows of table `name`, in input order
ColumnsOf(rows, name) ==
    LET own == SelectSeq(rows, LAMBDA row : row.table_name = name)
    IN  [k \in DOMAIN own |-> WrittenName(own[k])]

\* synthesis returned and the tables were split and parsed again
Reparsed == pc = "fix"

\* C15: every table name of the input rows is a key of the dependency
\* graph and of the name-to-DDL lookup built from the synthesized text.
C15_RoundTripKeepsTableNames ==
    Reparsed =>
        \A k \in DOMAIN NamedRows(schema_data) :
            /\ DictHas(graph, NamedRows(schema_data)[k].table_name)
            /\ DictHas(table_map, NamedRows(schema_data)[k].table_name)

WrittenType(row) == IF "data_type" \in row.absent THEN "VARCHAR" ELSE row.data_type

\* the length qualifier the claim gives a row: "" for none
ExpectedLength(row) ==
    IF Upper(WrittenType(row)) \notin {"VARCHAR", "NVARCHAR"} THEN ""
    ELSE IF IsNone(row, "max_length") \/ row.max_length <= 0 THEN "255"
    ELSE ToString(row.max_length)

\* the length qualifier of the column line that starts at index k
WrittenLength(s, k) ==
    LET close == IndexOf(s, "]", k)
    IN  IF At(s, close + 3) = "(" THEN At(s, close + 4) ELSE ""

\* C17: a column line carries a length only for VARCHAR and NVARCHAR, and
\* the length is 255 when max_length is missing, zero or negative and
\* max_length otherwise.
C17_LengthQualifier ==
    Reparsed =>
        /\ Len(ColumnStarts(schema_text)) = Len(NamedRows(schema_data))
        /\ \A k \in DOMAIN NamedRows(schema_data) :
               WrittenLength(schema_text, ColumnStarts(schema_text)[k])
               = ExpectedLength(NamedRows(schema_data)[k])

\* C18: with rows to work on, the request ends before the dependency
\* graph only when get_schema itself failed.
C18_SynthesisNeverFails ==
    (pc = "done" /\ schema_data # <<>>) => result = Failure("Schema retrieval failed")

(***************************************************************************)
(* Claims about the columns of the returned graph (Spec)                   *)
(***************************************************************************)
\* the columns list of a normalized node
ColumnsOfNode(n) == n.o.val["columns"].a

\* C19: no node of the returned graph has two columns with the same name.
C19_ColumnNamesUnique ==
    (pc = "done" /\ result.success) =>
        \A n \in DOMAIN result.nodes :
            \A a \in DOMAIN ColumnsOfNode(result.nodes[n]) :
                \A b \in DOMAIN ColumnsOfNode(result.nodes[n]) :
                    a # b => ColumnsOfNode(result.nodes[n])[a].o.val["name"]
                             # ColumnsOfNode(result.nodes[n])[b].o.val["name"]

(***************************************************************************)
(* Specification SpecParse: parse_erd_json as a unit, on answers whose     *)
(* nodes carry inline edges                                                *)
(***************************************************************************)
MaxNodes == 2

InlineEdge(label) == TEdge(label, "Orders", "EID", "Employees", "EID")

\* nodes without inline edges, with one, with two, with an empty list, with
\* null in the place of the list, a node that has a type of its own, and a
\* node that is a number
NodeTexts ==
    { TNode("A", "A", <<>>),
      TNode("B", "B", <<TPair("edges", TArr(<<InlineEdge("FK_B")>>))>>),
      TNode("C", "C", <<TPair("edges", TArr(<<InlineEdge("FK_C1"), InlineEdge("FK_C2")>>))>>),
      TNode("D", "D", <<TPair("edges", TArr(<<>>))>>),
      TNode("E", "E", <<TPair("edges", <<"null">>)>>),
      TNode("V", "V", <<TPair("type", TStr("view"))>>),
      <<"1">> }

\* the top-level members after "nodes": no edges key, an empty list, a
\* list of one edge, null
TopLevelEdges ==
    { <<>>, <<TPair("edges", TArr(<<>>))>>, <<TPair("edges", TArr(<<InlineEdge("FK_Top")>>))>>,
      <<TPair("edges", <<"null">>)>> }

ParseInputs ==
    { TObj(<<TPair("nodes", TArr(nodes))>> \o top) :
          nodes \in UNION { [1..n -> NodeTexts] : n \in 0..MaxNodes }, top \in TopLevelEdges }

InitParse ==
    /\ parse_in \in ParseInputs
    /\ parse_pc = "call"
    /\ parse_out = Raised
    /\ IdleClean
    /\ IdleMerge
    /\ IdleReview
    /\ IdleLlm
    /\ IdleClosure
    /\ graph = EmptyDict
    /\ IdleRequest

\* parse_out = parse_erd_json(parse_in)
ParseCall ==
    /\ parse_pc = "call"
    /\ parse_out' = parse_erd_json(parse_in)
    /\ parse_pc' = "done"
    /\ UNCHANGED <<parse_in, clean_vars, merge_vars, review_vars, llm_vars, closure_vars, graph,
                   request_vars>>

NextParse == ParseCall

SpecParse == InitParse /\ [][NextParse]_vars

(***************************************************************************)
(* Claims about the schema repair of parse_erd_json (SpecParse)            *)
(***************************************************************************)
\* the object that json.loads decodes from the answer
Decoded == json_loads(parse_in).v

\* the edges that the nodes carry inline, in node order
RECURSIVE InlineEdges(_)
InlineEdges(nodes) ==
    IF nodes = <<>> THEN <<>>
    ELSE (IF IsDict(Head(nodes)) /\ DictHas(Head(nodes).o, "edges")
          THEN Head(nodes).o.val["edges"].a ELSE <<>>)
         \o InlineEdges(Tail(nodes))

\* the top-level edges of the decoded object, none when the key is absent
TopEdges(parsed) == IF DictHas(parsed.o, "edges") THEN parsed.o.val["edges"].a ELSE <<>>

\* C20: in the object that parse_erd_json returns for a decoded object
\* whose nodes is a list, no node has an edges field and the top-level
\* edges are the ones that were there followed by the inline edges of the
\* nodes in node order (the inline edges alone when the key was absent).
C20_InlineEdgesAreHoisted ==
    (parse_pc = "done" /\ parse_out.ok /\ IsList(DictGet(Decoded.o, "nodes", JNull))) =>
        /\ \A k \in DOMAIN parse_out.v.o.val["nodes"].a :
               ~DictHas(parse_out.v.o.val["nodes"].a[k].o, "edges")
        /\ parse_out.v.o.val["edges"]
           = JArr(TopEdges(Decoded) \o InlineEdges(Decoded.o.val["nodes"].a))

\* one edge at the top level and three inline in two nodes
C20_Witness ==
    /\ parse_pc = "done"
    /\ parse_out.ok
    /\ Len(TopEdges(Decoded)) = 1
    /\ Len(InlineEdges(Decoded.o.val["nodes"].a)) = 3
    /\ Len(parse_out.v.o.val["edges"].a) = 4
    /\ parse_out.v.o.val["edges"].a[1] = TopEdges(Decoded)[1]

(***************************************************************************)
(* Claims about the type of the nodes (SpecParse, Spec)                    *)
(***************************************************************************)
\* every node of the list has type "table"
AllTables(nodes) == \A k \in DOMAIN nodes : DictGet(nodes[k].o, "type", JNull) = JStr("table")

\* C21: every node that parse_erd_json returns has type "table", whatever
\* type the answer gave it, and so has every node of the final graph.
C21_TypeIsForcedToTable ==
    /\ (parse_pc = "done" /\ parse_out.ok) => AllTables(parse_out.v.o.val["nodes"].a)
    /\ (pc = "done" /\ result.success) => AllTables(result.nodes)

(***************************************************************************)
(* Claims about the order of the chunk loop (Spec)                         *)
(***************************************************************************)
\* a step of the loop on chunk i: one call, then the loop turns to chunk
\* i + 1 and nothing is returned yet
OneChunkStep ==
    /\ i <= Len(schema_chunks)
    /\ i' = i + 1
    /\ erd_calls' = erd_calls + 1
    /\ pc' = "chunk"
    /\ result' = result

\* the step after the last chunk: every chunk had its one call and the
\* accumulated lists are read, not changed
DedupStep ==
    /\ i > Len(schema_chunks)
    /\ erd_calls = Len(schema_chunks)
    /\ pc' = "done"
    /\ UNCHANGED <<i, erd_calls, all_nodes, all_edges>>

\* C22: the chunks are processed one at a time in planner order with one
\* call_llm_single each, the deduplication runs once after the last chunk,
\* and nothing touches the accumulated lists after it.
C22_ChunksOneAtATime ==
    [][ /\ pc = "chunk" => (OneChunkStep \/ DedupStep)
        /\ pc = "done" => FALSE ]_vars

\* two chunks went through the loop and the merged graph was returned
C22_Witness ==
    /\ pc = "done"
    /\ result.success
    /\ Len(schema_chunks) = 2
    /\ erd_calls = 2
    /\ Len(all_nodes) = 2

(***************************************************************************)
(* Claims about the table review (SpecReview)                              *)
(***************************************************************************)
\* the latest call was get_next_table and it returned
NextTableReturned(call) == call.op = "get_next_table" /\ call.returned

\* C23: when get_next_table returns done, every table of the database is
\* in processed_tables or skipped_tables, also with a current_table.
C23_DoneMeansAllReviewed ==
    (NextTableReturned(review_out) /\ review_out.out.done) =>
        db_tables \subseteq processed_tables \cup skipped_tables

\* C24: the two sets only grow, and get_next_table never returns a table
\* that is in one of them.
C24_ReviewedTableNeverReturned ==
    [][ /\ processed_tables \subseteq processed_tables'
        /\ skipped_tables \subseteq skipped_tables'
        /\ (NextTableReturned(review_out') /\ ~review_out'.out.done) =>
               review_out'.out.table_name \notin processed_tables' \cup skipped_tables' ]_vars

\* A was processed, B was skipped, and get_next_table returns C
C24_Witness ==
    /\ NextTableReturned(review_out)
    /\ processed_tables = {"A"}
    /\ skipped_tables = {"B"}
    /\ review_out.arg = None
    /\ ~review_out.out.done
    /\ review_out.out.table_name = "C"

\* the generation call failed, or returned no SQL, or a statement of the
\* SQL is rejected
FixFails(generated) ==
    \/ ~generated.ok
    \/ strip(generated.text) = <<>>
    \/ \E k \in DOMAIN generated.text : generated.text[k] = "bad"

\* C25: apply_fix adds its table to processed_tables only when the SQL was
\* not empty and every statement ran; when the call or a statement fails
\* or the SQL is empty it returns success = false and leaves both sets as
\* they were, and the statements before the failing one stay committed.
C25_FixRecordsOnlyAfterSuccess ==
    [][ review_out'.op = "apply_fix" =>
          /\ skipped_tables' = skipped_tables
          /\ processed_tables' \subseteq processed_tables \cup {review_out'.arg}
          /\ processed_tables' # processed_tables => ~FixFails(review_out'.sql)
          /\ FixFails(review_out'.sql) =>
                 /\ ~review_out'.out.success
                 /\ processed_tables' = processed_tables
                 /\ applied' = applied + Executed(Statements(review_out'.sql.text)) ]_vars

\* the second of three statements was rejected: the first stays committed
\* and the table is not recorded
C25_Witness ==
    /\ review_out.op = "apply_fix"
    /\ review_out.arg = "A"
    /\ Len(Statements(review_out.sql.text)) = 3
    /\ FixFails(review_out.sql)
    /\ ~review_out.out.success
    /\ applied = 1
    /\ processed_tables = {}

(***************************************************************************)
(* Claims about what one chunk adds to the accumulated lists (Spec)        *)
(***************************************************************************)
\* what parse_erd_json returns for the answer of a chunk
ChunkParsed(raw) ==
    IF raw = <<>> \/ ~clean_json_string(raw).ok THEN Raised
    ELSE parse_erd_json(clean_json_string(raw).text)

\* the normalized nodes of the parsed answer: [ok, nodes]
ChunkNodes(parsed) ==
    NormalizeAll(Items(DictGet(parsed.v.o, "nodes", JArr(<<>>))), [ok |-> TRUE, nodes |-> <<>>])

\* the edges of the parsed answer
ChunkEdges(parsed) == Items(DictGet(parsed.v.o, "edges", JArr(<<>>)))

\* the step appended every normalized node and every edge of the answer
AllOfChunk(parsed) ==
    /\ parsed.ok
    /\ ChunkNodes(parsed).ok
    /\ all_nodes' = all_nodes \o ChunkNodes(parsed).nodes
    /\ all_edges' = all_edges \o ChunkEdges(parsed)

\* C26: one pass of the chunk loop appends all the normalized nodes and
\* all the edges of the chunk, or it changes neither list.
C26_ChunkIsAllOrNothing ==
    [][ (pc = "chunk" /\ i' = i + 1) =>
           \/ all_nodes' = all_nodes /\ all_edges' = all_edges
           \/ AllOfChunk(ChunkParsed(raw_erd')) ]_vars

\* the first chunk added its node and its edge
C26_Witness ==
    /\ pc = "chunk"
    /\ i = 2
    /\ raw_erd = AnsEmployees
    /\ Len(all_nodes) = 1
    /\ Len(all_edges) = 1

====
